---------------------------- MODULE Spec2Model ----------------------------
(***************************************************************************)
(* A model of the QuantX live trading execution core:                      *)
(*   - OrderValidator / OrderManager (execution/orders/order_manager.py)   *)
(*   - PaperBroker (execution/brokers/paper_broker.py) and the Order model *)
(*     (execution/brokers/base.py)                                         *)
(*   - RiskManager (execution/risk/risk_manager.py)                        *)
(*   - EventBus (core/events.py)                                           *)
(*                                                                         *)
(* Python passes Order objects by reference: the OrderManager and the      *)
(* PaperBroker hold the SAME object, so "orders" is the heap of Order      *)
(* objects and oms_orders / broker_orders are the key sets of the two      *)
(* dictionaries that refer to it.                                          *)
(*                                                                         *)
(* Money is kept in exact integers: the market price is a multiple of      *)
(* SlippageDen and quantities are multiples of CommissionDen, so slippage  *)
(* and commission are exact; average_fill_price is an exact rational       *)
(* <<num, den>>.                                                           *)
(***************************************************************************)
EXTENDS Integers, Sequences, FiniteSets, TLC

VARIABLES
    \* ---- heap of Order objects (base.py Order) ----
    orders,
    \* ---- OrderManager ----
    enable_validation, oms_orders, oms_fills, pending_orders, stats,
    \* ---- PaperBroker ----
    connected, cash, positions, broker_orders, current_prices,
    \* ---- RiskManager ----
    enable_kill_switch, kill_switch_active, violations, daily_pnl,
    peak_equity, current_drawdown, order_timestamps, now, check_result,
    \* ---- history: the number of check_order calls, and which of
    \*      trigger_kill_switch / deactivate_kill_switch was called last ----
    risk_calls,
    \* ---- EventBus ----
    event_queue, running, stop_event, threads, event_count, error_count,
    \* ---- the caller of EventBus.start / stop: "idle", waiting in the join of
    \*      stop ("join"), or back from stop with the join's outcome ("joined",
    \*      "timeout") and no start since ----
    stopper,
    \* ---- history of the bus: the number of events for which publish returned
    \*      normally, the number of events clear_queue removed ----
    bus_log,
    \* ---- LiveExecutionEngine: state, the call of start / stop in progress
    \*      (control), self._stop_event, config.dry_run, signals_received, the
    \*      strategy's _positions, the number of worker pairs start launched ----
    state, control, engine_stop_event, dry_run, signals_received,
    strategy_positions, workers,
    \* ---- history of the engine: a Critical violation has paused the engine
    \*      and resume() has not been called since ----
    risk_pause,
    \* ---- the heartbeat threads start() launched: the position of each in
    \*      _heartbeat_loop and the reconnect attempts it has made ----
    heartbeat,
    \* ---- StateStore: the rows of the tables engine_states and
    \*      crash_markers, in the order of their ids ----
    engine_states, crash_markers,
    \* ---- PositionSynchronizer: the dict of local positions and the dict of
    \*      local prices its caller passes to sync_positions, the positions
    \*      its broker reports, auto_reconcile, sync_count, the reports of
    \*      its sync_positions calls ----
    local_positions, local_prices, broker_dict, auto_reconcile, sync_count,
    reconciliation_history,
    \* ---- the broker of the PositionSynchronizer: its get_positions call
    \*      raises ----
    get_positions_fails,
    \* ---- LivePnLTracker: initial_capital, realized_pnl, total_commission,
    \*      the unrealized P&L of each symbol, the trade records, the peak
    \*      equity and the maximum drawdown (a percentage, as a fraction) ----
    tracker_capital, realized_pnl, total_commission, _position_pnl, _trades,
    _peak_equity, _max_drawdown,
    \* ---- ZerodhaWebSocket: a KiteTicker has been created, _connected, the
    \*      saved tokens and the saved mode; the mode of each token the feed
    \*      streams on the current connection ----
    _ticker, _connected, _subscribed_tokens, _subscription_mode,
    ticker_subscriptions,
    \* ---- history of the socket: what the feed streamed when the connection
    \*      was last lost, and whether subscribe or unsubscribe has been
    \*      called since ("fresh": no connection has been lost) ----
    held_before, sub_phase,
    \* ---- the threads that call OrderManager.process_fill: the position of
    \*      each in the call, its fill, and the value it has loaded ----
    fill_callers,
    \* ---- a caller of OrderValidator.validate: the order it holds and what
    \*      validate returned for it (<<>> before the call) ----
    candidate, verdict,
    \* ---- observation of the last call of start, of stop or of an event
    \*      handler of the engine: the engine state it found, what it did ----
    engine_log,
    \* ---- observation of the last submit_order call: what it returned, whether
    \*      it called the broker's place_order, the callbacks it fired ----
    last,
    \* ---- history: per Order object, the sums (price * qty, qty) over the fills
    \*      applied to it (by PaperBroker._process_fill and by
    \*      OrderManager.process_fill), and over those process_fill applied ----
    applied

oms_vars    == <<orders, enable_validation, oms_orders, oms_fills, pending_orders, stats>>
broker_vars == <<connected, cash, positions, broker_orders, current_prices>>
risk_vars   == <<enable_kill_switch, kill_switch_active, violations, daily_pnl,
                 peak_equity, current_drawdown, order_timestamps, now, check_result,
                 risk_calls>>
bus_vars    == <<event_queue, running, stop_event, threads, event_count, error_count,
                 stopper, bus_log>>
obs_vars    == <<last, applied>>
engine_vars == <<state, control, engine_stop_event, dry_run, signals_received,
                 strategy_positions, workers, risk_pause, heartbeat, engine_log>>
store_vars  == <<engine_states, crash_markers>>
sync_vars   == <<local_positions, local_prices, broker_dict, auto_reconcile,
                 sync_count, reconciliation_history, get_positions_fails>>
pnl_vars    == <<tracker_capital, realized_pnl, total_commission, _position_pnl,
                 _trades, _peak_equity, _max_drawdown>>
ws_vars     == <<_ticker, _connected, _subscribed_tokens, _subscription_mode,
                 ticker_subscriptions, held_before, sub_phase>>
call_vars   == <<fill_callers>>
val_vars    == <<candidate, verdict>>
ext_vars    == <<store_vars, sync_vars, pnl_vars, ws_vars, call_vars, val_vars>>
core_vars   == <<oms_vars, broker_vars, risk_vars, bus_vars, obs_vars, engine_vars>>
vars        == <<oms_vars, broker_vars, risk_vars, bus_vars, obs_vars, engine_vars,
                 ext_vars>>

-----------------------------------------------------------------------------
(* Bounds of the model *)

\* Number of submit_order calls explored.
MaxSubmits == 2
\* Number of distinct Order objects the callers create: every object enters
\* the system through a submit_order call.
MaxOrders == MaxSubmits
\* Number of process_fill calls explored.
MaxFills == 2

OrderIds == 1..MaxOrders

\* Python's None for an optional number.
None == 0 - 1

-----------------------------------------------------------------------------
(* base.py: enumerations and the Order model *)

OrderType == {"market", "limit", "stop", "stop_limit"}
OrderSide == {"buy", "sell"}
OrderStatus == {"created", "pending", "submitted", "partially_filled",
                "filled", "cancelled", "rejected", "expired"}

\* Order.is_open
is_open(o) == o.status \in {"pending", "submitted", "partially_filled"}

\* Exact rationals <<num, den>> with den > 0, kept in lowest terms.
RECURSIVE Gcd(_, _)
Gcd(a, b) == IF b = 0 THEN a ELSE Gcd(b, a % b)

Abs(x) == IF x < 0 THEN 0 - x ELSE x

Rat(n, d) ==
    LET g == Gcd(Abs(n), d)
    IN  IF n = 0 THEN <<0, 1>> ELSE <<n \div g, d \div g>>


-----------------------------------------------------------------------------
(* order_manager.py: OrderValidator *)

\* OrderValidator._validate_quantity
_validate_quantity(o) ==
    IF o.quantity <= 0 THEN <<FALSE, "Invalid quantity">> ELSE <<TRUE, "">>

\* A wrong price rule: the stop price is not looked at.
_validate_prices_limit_only(o) ==
    IF o.order_type = "limit" /\ o.price = None
        THEN <<FALSE, "Limit order requires price">>
    ELSE IF o.order_type = "limit" /\ o.price <= 0
        THEN <<FALSE, "Invalid limit price">>
    ELSE <<TRUE, "">>

\* OrderValidator._validate_prices
_validate_prices(o) ==
    IF o.order_type = "limit" /\ o.price = None
        THEN <<FALSE, "Limit order requires price">>
    ELSE IF o.order_type = "limit" /\ o.price <= 0
        THEN <<FALSE, "Invalid limit price">>
    ELSE IF o.order_type \in {"stop", "stop_limit"} /\ o.stop_price = None
        THEN <<FALSE, "Stop order requires stop price">>
    ELSE IF o.order_type \in {"stop", "stop_limit"} /\ o.stop_price <= 0
        THEN <<FALSE, "Invalid stop price">>
    ELSE <<TRUE, "">>

\* OrderValidator._validate_symbol
_validate_symbol(o) ==
    IF o.symbol = "" THEN <<FALSE, "Symbol is required">> ELSE <<TRUE, "">>

\* OrderValidator.validate: the default rules in the order _setup_default_rules
\* adds them; the first failing rule's reason is returned.
validate(o) ==
    IF ~_validate_quantity(o)[1] THEN _validate_quantity(o)
    ELSE IF ~_validate_prices(o)[1] THEN _validate_prices(o)
    ELSE IF ~_validate_symbol(o)[1] THEN _validate_symbol(o)
    ELSE <<TRUE, None>>

\* The orders validate is called with: every order type, with quantities and
\* prices that are negative, zero, positive or (for the prices) not set, and
\* with and without a symbol.
ValidatorInputs ==
    [symbol : {"", "AAPL"}, side : {"buy", "sell"},
     order_type : {"market", "limit", "stop", "stop_limit"},
     quantity : {0 - 5, 0, 5},
     price : {None, 0 - 5, 0, 7}, stop_price : {None, 0 - 5, 0, 7}]

\* A caller runs self.validator.validate(order) on the order it holds.
Validate ==
    /\ verdict = <<>>
    /\ verdict' = validate(candidate)
    /\ UNCHANGED <<core_vars, store_vars, sync_vars, pnl_vars, ws_vars,
                   call_vars, candidate>>

-----------------------------------------------------------------------------
(* paper_broker.py: PaperBroker *)

\* PaperBroker configuration (the config dictionary of __init__).  Rates are
\* fractions Num/Den; market_impact is configured 0 (its logarithm has no
\* exact integer form), so the market impact term of the fill price is 0.
initial_capital == 100000
CommissionNum == 1
CommissionDen == 100
SlippageNum == 1
SlippageDen == 50
\* The market price update_prices sets for the priced symbol: a multiple of
\* SlippageDen, so that the slippage is a whole amount.
MarketPrice == 3 * SlippageDen

\* IBroker.validate_order (base.py), used by PaperBroker.place_order
validate_order(o) ==
    /\ ~(o.quantity <= 0)
    /\ ~(o.order_type = "limit" /\ o.price = None)
    /\ ~(o.order_type \in {"stop", "stop_limit"} /\ o.stop_price = None)

\* PaperBroker._calculate_fill_price
_calculate_fill_price(current_price, side, quantity) ==
    LET slippage == (current_price * SlippageNum) \div SlippageDen
        market_impact == 0
    IN  IF side = "buy" THEN current_price + slippage + market_impact
        ELSE current_price - slippage - market_impact

\* PaperBroker._calculate_commission
_calculate_commission(quantity, price) ==
    (quantity * price * CommissionNum) \div CommissionDen

\* A wrong update of average_fill_price: the old average weighted by the new
\* total instead of by the quantity filled before.
vwap_update_old_weighted_by_total(avg, filled, qty, price) ==
    Rat(avg[1] * filled + price * qty * avg[2], avg[2] * filled)

\* The rational update of average_fill_price shared by
\* PaperBroker._process_fill and OrderManager.process_fill:
\*   (avg * (filled - qty) + price * qty) / filled, filled being the new total.
vwap_update(avg, filled, qty, price) ==
    Rat(avg[1] * (filled - qty) + price * qty * avg[2], avg[2] * filled)

\* PaperBroker._update_position: pos maps the symbols that have a Position
\* object to its quantity.
_update_position(pos, fill) ==
    IF fill.symbol \notin DOMAIN pos
    THEN IF fill.side = "buy"
         THEN [s \in DOMAIN pos \cup {fill.symbol} |->
                  IF s = fill.symbol THEN fill.quantity ELSE pos[s]]
         ELSE pos
    ELSE IF fill.side = "buy"
         THEN [pos EXCEPT ![fill.symbol] = @ + fill.quantity]
         ELSE IF pos[fill.symbol] - fill.quantity <= 0
              THEN [s \in DOMAIN pos \ {fill.symbol} |-> pos[s]]
              ELSE [pos EXCEPT ![fill.symbol] = @ - fill.quantity]

\* PaperBroker._process_fill: applies the fill to the order object, the
\* position and the cash.  b is the broker state [cash, positions]; the result
\* also lists the fills applied to the order object.
_process_fill(fill, o, b) ==
    LET filled == o.filled_quantity + fill.quantity
        o1 == [o EXCEPT !.filled_quantity = filled,
                        !.average_fill_price =
                            vwap_update(o.average_fill_price, filled,
                                        fill.quantity, fill.price),
                        !.status = IF filled >= o.quantity THEN "filled"
                                   ELSE "partially_filled"]
    IN  [order |-> o1, fills |-> <<fill>>,
         positions |-> _update_position(b.positions, fill),
         cash |-> IF fill.side = "buy"
                  THEN b.cash - (fill.quantity * fill.price + fill.commission)
                  ELSE b.cash + (fill.quantity * fill.price) - fill.commission]

\* PaperBroker._execute_market_order
_execute_market_order(o, id, b) ==
    IF o.symbol \notin DOMAIN current_prices
    THEN [order |-> [o EXCEPT !.status = "rejected"], fills |-> <<>>,
          positions |-> b.positions, cash |-> b.cash]
    ELSE LET current_price == current_prices[o.symbol]
             fill_price == _calculate_fill_price(current_price, o.side, o.quantity)
             commission == _calculate_commission(o.quantity, fill_price)
             total_cost == (o.quantity * fill_price) + commission
         IN  IF o.side = "buy" /\ total_cost > b.cash
             THEN [order |-> [o EXCEPT !.status = "rejected"], fills |-> <<>>,
                   positions |-> b.positions, cash |-> b.cash]
             ELSE _process_fill([order_id |-> id, symbol |-> o.symbol,
                                 side |-> o.side, quantity |-> o.quantity,
                                 price |-> fill_price, commission |-> commission],
                                o, b)

\* PaperBroker.place_order.  The result says whether the call raised
\* (not connected), what it returned, and the new order / broker state.
place_order(o, id) ==
    LET b == [cash |-> cash, positions |-> positions]
    IN  IF ~connected
        THEN [raised |-> TRUE, ret |-> None, order |-> o, stored |-> FALSE,
              fills |-> <<>>, positions |-> positions, cash |-> cash]
        ELSE IF ~validate_order(o)
        THEN [raised |-> FALSE, ret |-> id,
              order |-> [o EXCEPT !.status = "rejected"], stored |-> FALSE,
              fills |-> <<>>, positions |-> positions, cash |-> cash]
        ELSE LET o1 == [o EXCEPT !.status = "submitted"]
                 r == IF o.order_type = "market"
                      THEN _execute_market_order(o1, id, b)
                      ELSE [order |-> [o1 EXCEPT !.status = "pending"],
                            fills |-> <<>>, positions |-> positions, cash |-> cash]
             IN  [raised |-> FALSE, ret |-> id, order |-> r.order,
                  stored |-> TRUE, fills |-> r.fills,
                  positions |-> r.positions, cash |-> r.cash]

\* PaperBroker.cancel_order: TRUE iff the order is one of the broker's and is
\* Pending or Submitted.
broker_cancel_order(id) ==
    /\ id \in broker_orders
    /\ orders[id].status \in {"pending", "submitted"}

-----------------------------------------------------------------------------
(* order_manager.py: OrderManager *)

EmptyMap == [x \in {} |-> 0]

\* dict assignment d[k] = v
Put(d, k, v) == [x \in DOMAIN d \cup {k} |-> IF x = k THEN v ELSE d[x]]

\* list.remove(x): removes the first occurrence
RECURSIVE Remove(_, _)
Remove(s, x) ==
    IF s = <<>> THEN <<>>
    ELSE IF Head(s) = x THEN Tail(s)
    ELSE <<Head(s)>> \o Remove(Tail(s), x)

InSeq(s, x) == \E k \in 1..Len(s) : s[k] = x

\* A new Order object as the dataclass builds it from the caller's arguments.
NewOrder(inp) ==
    [symbol |-> inp.symbol, side |-> inp.side, order_type |-> inp.order_type,
     quantity |-> inp.quantity, price |-> inp.price, stop_price |-> inp.stop_price,
     status |-> "created", filled_quantity |-> 0, average_fill_price |-> <<0, 1>>]

\* The limit / stop price callers put on an order.
OrderPrice == MarketPrice
\* Quantities are whole lots; a lot is a multiple of CommissionDen, so that
\* the commission is a whole amount.
LotSize == 5 * CommissionDen
Quantities == {0, LotSize, 2 * LotSize}

\* The orders callers submit: market buys of every quantity (0 included) and
\* a market sell on the symbol the broker prices ("AAPL"), a market buy on a
\* symbol it never prices ("TSLA"), and limit buys with and without a price.
OrderInputs ==
    {[symbol |-> "AAPL", side |-> "buy", order_type |-> "market", quantity |-> q,
      price |-> None, stop_price |-> None] : q \in Quantities}
    \cup
    {[symbol |-> "AAPL", side |-> "sell", order_type |-> "market",
      quantity |-> LotSize, price |-> None, stop_price |-> None]}
    \cup
    {[symbol |-> "TSLA", side |-> "buy", order_type |-> "market",
      quantity |-> LotSize, price |-> None, stop_price |-> None]}
    \cup
    {[symbol |-> "AAPL", side |-> "buy", order_type |-> "limit",
      quantity |-> 2 * LotSize, price |-> p, stop_price |-> None] :
        p \in {None, OrderPrice}}

\* The fills callers hand to process_fill.
FillPrices == {MarketPrice, MarketPrice + 30}
FillInputs ==
    [order_id : OrderIds, quantity : Quantities \ {0}, price : FillPrices]

Bump(st, key) == [st EXCEPT ![key] = @ + 1]

\* History of the fills applied to Order object id.
RECURSIVE Applied(_, _, _, _)
Applied(ap, id, fills, by_oms) ==
    IF fills = <<>> THEN ap
    ELSE LET f == Head(fills)
             a == ap[id]
             a1 == [a EXCEPT !.pq = @ + f.price * f.quantity,
                             !.q = @ + f.quantity,
                             !.oms_pq = IF by_oms THEN @ + f.price * f.quantity ELSE @,
                             !.oms_q = IF by_oms THEN @ + f.quantity ELSE @]
         IN  Applied([ap EXCEPT ![id] = a1], id, Tail(fills), by_oms)

\* A wrong validator-reject branch: the rejected order is counted as submitted.
validation_failed_counted_submitted(id, o, error) ==
    /\ orders' = Put(orders, id, [o EXCEPT !.status = "rejected"])
    /\ oms_orders' = oms_orders \cup {id}
    /\ stats' = Bump(stats, "orders_submitted")
    /\ last' = [op |-> "submit_order", order |-> id, ret |-> None,
                placed |-> FALSE,
                callbacks |-> << <<"order_rejected", error>> >>]
    /\ UNCHANGED <<pending_orders, cash, positions, broker_orders, applied>>

\* OrderManager.submit_order, the branch taken when the validator rejects the
\* order: mark it Rejected, record it, count it, fire order_rejected with the
\* validator's error and return None without calling the broker.
validation_failed(id, o, error) ==
    /\ orders' = Put(orders, id, [o EXCEPT !.status = "rejected"])
    /\ oms_orders' = oms_orders \cup {id}
    /\ stats' = Bump(stats, "orders_rejected")
    /\ last' = [op |-> "submit_order", order |-> id, ret |-> None,
                placed |-> FALSE,
                callbacks |-> << <<"order_rejected", error>> >>]
    /\ UNCHANGED <<pending_orders, cash, positions, broker_orders, applied>>

\* OrderManager.submit_order(order), order being object id.  The identity
\* "oms_<uuid>" the method assigns to an order without one is the object's
\* index id.
submit_order(id, o) ==
    LET v == validate(o)
    IN  IF enable_validation /\ ~v[1]
        THEN validation_failed(id, o, v[2])
        ELSE LET r == place_order(o, id)
             IN  IF r.raised
                 THEN \* except Exception: the broker raised
                      /\ orders' = Put(orders, id, [r.order EXCEPT !.status = "rejected"])
                      /\ oms_orders' = oms_orders \cup {id}
                      /\ stats' = Bump(stats, "orders_rejected")
                      /\ last' = [op |-> "submit_order", order |-> id, ret |-> None,
                                  placed |-> TRUE,
                                  callbacks |-> << <<"order_rejected",
                                                     "Not connected to broker">> >>]
                      /\ UNCHANGED <<pending_orders, cash, positions, broker_orders,
                                     applied>>
                 ELSE IF r.ret # None
                 THEN \* if broker_order_id: the returned identity is truthy
                      /\ orders' = Put(orders, id, r.order)
                      /\ oms_orders' = oms_orders \cup {id}
                      /\ pending_orders' = IF is_open(r.order)
                                           THEN Append(pending_orders, id)
                                           ELSE pending_orders
                      /\ stats' = Bump(stats, "orders_submitted")
                      /\ last' = [op |-> "submit_order", order |-> id, ret |-> id,
                                  placed |-> TRUE,
                                  callbacks |-> << <<"order_submitted", "">> >>]
                      /\ cash' = r.cash
                      /\ positions' = r.positions
                      /\ broker_orders' = IF r.stored THEN broker_orders \cup {id}
                                          ELSE broker_orders
                      /\ applied' = Applied(applied, id, r.fills, FALSE)
                 ELSE \* else: the broker returned no identity
                      /\ orders' = Put(orders, id, [r.order EXCEPT !.status = "rejected"])
                      /\ oms_orders' = oms_orders \cup {id}
                      /\ stats' = Bump(stats, "orders_rejected")
                      /\ last' = [op |-> "submit_order", order |-> id, ret |-> None,
                                  placed |-> TRUE,
                                  callbacks |-> << <<"order_rejected",
                                                     "Broker rejected order">> >>]
                      /\ cash' = r.cash
                      /\ positions' = r.positions
                      /\ broker_orders' = IF r.stored THEN broker_orders \cup {id}
                                          ELSE broker_orders
                      /\ applied' = Applied(applied, id, r.fills, FALSE)
                      /\ UNCHANGED pending_orders

\* A caller submits a new Order object, or submits again one it already holds.
SubmitOrder ==
    /\ stats.orders_submitted + stats.orders_rejected < MaxSubmits
    /\ \E id \in OrderIds :
          \/ /\ id \in DOMAIN orders
             /\ submit_order(id, orders[id])
          \/ /\ id = Cardinality(DOMAIN orders) + 1
             /\ \E inp \in OrderInputs : submit_order(id, NewOrder(inp))
    /\ UNCHANGED <<enable_validation, oms_fills, connected, current_prices,
                   risk_vars, bus_vars, engine_vars, ext_vars>>

\* OrderManager.cancel_order(order_id): returns FALSE and changes nothing for
\* an unknown order, an order that is not open, and an order the broker does
\* not cancel.
cancel_order(id) ==
    IF id \notin oms_orders THEN UNCHANGED <<orders, pending_orders, stats>>
    ELSE IF ~is_open(orders[id]) THEN UNCHANGED <<orders, pending_orders, stats>>
    ELSE IF broker_cancel_order(id)
    THEN /\ orders' = [orders EXCEPT ![id].status = "cancelled"]
         /\ pending_orders' = IF InSeq(pending_orders, id)
                              THEN Remove(pending_orders, id)
                              ELSE pending_orders
         /\ stats' = Bump(stats, "orders_cancelled")
    ELSE UNCHANGED <<orders, pending_orders, stats>>

CancelOrder ==
    /\ \E id \in OrderIds : cancel_order(id)
    /\ UNCHANGED <<enable_validation, oms_orders, oms_fills, broker_vars,
                   risk_vars, bus_vars, engine_vars, ext_vars, obs_vars>>

\* OrderManager.process_fill(fill)
process_fill(fill) ==
    /\ oms_fills' = Append(oms_fills, fill)
    /\ applied' = IF fill.order_id \in oms_orders
                  THEN Applied(applied, fill.order_id, <<fill>>, TRUE)
                  ELSE applied
    /\ IF fill.order_id \in oms_orders
       THEN LET o == orders[fill.order_id]
                filled == o.filled_quantity + fill.quantity
                avg == IF filled > 0
                       THEN vwap_update(o.average_fill_price, filled,
                                        fill.quantity, fill.price)
                       ELSE o.average_fill_price
            IN  IF filled >= o.quantity
                THEN /\ orders' = [orders EXCEPT ![fill.order_id] =
                                      [o EXCEPT !.filled_quantity = filled,
                                                !.average_fill_price = avg,
                                                !.status = "filled"]]
                     /\ pending_orders' = IF InSeq(pending_orders, fill.order_id)
                                          THEN Remove(pending_orders, fill.order_id)
                                          ELSE pending_orders
                     /\ stats' = Bump(Bump(stats, "total_fills"), "orders_filled")
                ELSE /\ orders' = [orders EXCEPT ![fill.order_id] =
                                      [o EXCEPT !.filled_quantity = filled,
                                                !.average_fill_price = avg,
                                                !.status = "partially_filled"]]
                     /\ stats' = Bump(stats, "total_fills")
                     /\ UNCHANGED pending_orders
       ELSE /\ stats' = Bump(stats, "total_fills")
            /\ UNCHANGED <<orders, pending_orders>>

ProcessFill ==
    /\ stats.total_fills < MaxFills
    /\ \E fill \in FillInputs : process_fill(fill)
    /\ UNCHANGED <<enable_validation, oms_orders, broker_vars, risk_vars, bus_vars, engine_vars, ext_vars,
                   last>>

\* PaperBroker.connect
Connect ==
    /\ connected' = TRUE
    /\ UNCHANGED <<oms_vars, cash, positions, broker_orders, current_prices,
                   risk_vars, bus_vars, engine_vars, ext_vars, obs_vars>>

\* PaperBroker.disconnect
Disconnect ==
    /\ connected' = FALSE
    /\ UNCHANGED <<oms_vars, cash, positions, broker_orders, current_prices,
                   risk_vars, bus_vars, engine_vars, ext_vars, obs_vars>>

\* PaperBroker.update_prices({"AAPL": MarketPrice}); the quantity-only view of
\* the positions is not changed by a price update.
UpdatePrices ==
    /\ current_prices' = Put(current_prices, "AAPL", MarketPrice)
    /\ UNCHANGED <<oms_vars, connected, cash, positions, broker_orders,
                   risk_vars, bus_vars, engine_vars, ext_vars, obs_vars>>

-----------------------------------------------------------------------------
(* risk_manager.py: RiskLimits and RiskManager *)

\* RiskLimits: the defaults, fractions as Num/Den.  The two order-rate limits
\* are configured low, so that a few checks reach them.
max_position_size == 10000
max_position_pct_num == 1
max_position_pct_den == 10
max_drawdown_num == 1
max_drawdown_den == 10
max_daily_loss == 1000
max_daily_loss_pct_num == 1
max_daily_loss_pct_den == 50
max_total_exposure == 100000
max_long_exposure == 100000
max_short_exposure == 50000
max_orders_per_second == 1
max_orders_per_minute == 2

\* timedelta(seconds=1) and timedelta(minutes=1), in seconds
OneSecond == 1
OneMinute == 60 * OneSecond

\* A RiskViolation, as <<level, rule>>
RiskViolation(level, rule) == <<level, rule>>

\* [x for x in s if P(x)] for the timestamps later than bound
RECURSIVE LaterThan(_, _)
LaterThan(ts, bound) ==
    IF ts = <<>> THEN <<>>
    ELSE IF Head(ts) > bound THEN <<Head(ts)>> \o LaterThan(Tail(ts), bound)
    ELSE LaterThan(Tail(ts), bound)

\* RiskManager._check_order_rate at time t: the violations and the new ring
_check_order_rate(ts, t) ==
    LET kept == LaterThan(ts, t - OneMinute)
        recent_orders == Len(LaterThan(kept, t - OneSecond))
        v1 == IF recent_orders >= max_orders_per_second
              THEN <<RiskViolation("high", "order_rate_per_second")>> ELSE <<>>
        v2 == IF Len(kept) >= max_orders_per_minute
              THEN <<RiskViolation("medium", "order_rate_per_minute")>> ELSE <<>>
    IN  [violations |-> v1 \o v2, order_timestamps |-> Append(kept, t)]

\* order.quantity * (order.price or 0)
estimated_value(order) ==
    order.quantity * (IF order.price = None THEN 0 ELSE order.price)

\* RiskManager._check_position_size
_check_position_size(order, account) ==
    IF estimated_value(order) = 0 THEN <<>>
    ELSE (IF estimated_value(order) > max_position_size
          THEN <<RiskViolation("high", "max_position_size")>> ELSE <<>>)
         \o
         (IF /\ account.equity > 0
             /\ estimated_value(order) * max_position_pct_den >
                    max_position_pct_num * account.equity
          THEN <<RiskViolation("high", "max_position_pct")>> ELSE <<>>)

\* RiskManager._check_daily_loss
_check_daily_loss(pnl, account) ==
    (IF Abs(pnl) >= max_daily_loss
     THEN <<RiskViolation("critical", "max_daily_loss")>> ELSE <<>>)
    \o
    (IF /\ account.initial_capital > 0
        /\ Abs(pnl) * max_daily_loss_pct_den >=
               max_daily_loss_pct_num * account.initial_capital
     THEN <<RiskViolation("critical", "max_daily_loss_pct")>> ELSE <<>>)

\* sum(... for pos in positions if ...): long is TRUE for the long side
RECURSIVE Exposure(_, _)
Exposure(ps, long) ==
    IF ps = <<>> THEN 0
    ELSE (IF long /\ Head(ps).quantity > 0 THEN Head(ps).market_value
          ELSE IF ~long /\ Head(ps).quantity < 0 THEN Abs(Head(ps).market_value)
          ELSE 0) + Exposure(Tail(ps), long)

\* RiskManager._check_exposure
_check_exposure(order, ps) ==
    LET total_long == Exposure(ps, TRUE)
        total_short == Exposure(ps, FALSE)
    IN  (IF order.side = "buy"
         THEN IF total_long + estimated_value(order) > max_long_exposure
              THEN <<RiskViolation("high", "max_long_exposure")>> ELSE <<>>
         ELSE IF total_short + estimated_value(order) > max_short_exposure
              THEN <<RiskViolation("high", "max_short_exposure")>> ELSE <<>>)
        \o
        (IF total_long + total_short + estimated_value(order) > max_total_exposure
         THEN <<RiskViolation("high", "max_total_exposure")>> ELSE <<>>)

\* RiskManager._check_drawdown: the violations, the new peak and drawdown
_check_drawdown(peak, drawdown, account) ==
    LET peak1 == IF account.equity > peak THEN account.equity ELSE peak
        dd == IF peak1 > 0 THEN Rat(peak1 - account.equity, peak1) ELSE drawdown
    IN  [violations |->
             IF peak1 > 0 /\ dd[1] * max_drawdown_den >= max_drawdown_num * dd[2]
             THEN <<RiskViolation("critical", "max_drawdown")>> ELSE <<>>,
         peak_equity |-> peak1, current_drawdown |-> dd]

\* the levels of a list of violations hold "critical"
HasCritical(vs) == \E k \in 1..Len(vs) : vs[k][1] = "critical"

\* A wrong check_order: the kill switch is not looked at.
check_order_without_kill_switch(order, account, ps) ==
    LET rate == _check_order_rate(order_timestamps, now)
        dd == _check_drawdown(peak_equity, current_drawdown, account)
        vs == rate.violations \o _check_position_size(order, account)
                \o _check_daily_loss(daily_pnl, account)
                \o _check_exposure(order, ps) \o dd.violations
    IN  [is_safe |-> ~HasCritical(vs), violations |-> vs,
         order_timestamps |-> rate.order_timestamps,
         peak_equity |-> dd.peak_equity, current_drawdown |-> dd.current_drawdown]

\* RiskManager.check_order(order, account, positions): what it returns and
\* the state it leaves.
check_order(order, account, ps) ==
    IF kill_switch_active
    THEN [is_safe |-> FALSE,
          violations |-> <<RiskViolation("critical", "kill_switch")>>,
          order_timestamps |-> order_timestamps,
          peak_equity |-> peak_equity, current_drawdown |-> current_drawdown]
    ELSE LET rate == _check_order_rate(order_timestamps, now)
             dd == _check_drawdown(peak_equity, current_drawdown, account)
             vs == rate.violations \o _check_position_size(order, account)
                     \o _check_daily_loss(daily_pnl, account)
                     \o _check_exposure(order, ps) \o dd.violations
         IN  [is_safe |-> ~HasCritical(vs), violations |-> vs,
              order_timestamps |-> rate.order_timestamps,
              peak_equity |-> dd.peak_equity,
              current_drawdown |-> dd.current_drawdown]

\* Number of check_order calls explored.
MaxChecks == 3
\* Number of trigger_kill_switch calls explored.
MaxTriggers == 1
\* The clock stops advancing once it has reached MaxTime seconds.
MaxTime == 1

\* The orders, accounts and position lists callers hand to check_order.
RiskOrders ==
    {[side |-> "buy", quantity |-> 10, price |-> OrderPrice],
     [side |-> "buy", quantity |-> 2 * LotSize, price |-> OrderPrice],
     [side |-> "buy", quantity |-> LotSize, price |-> None],
     [side |-> "sell", quantity |-> LotSize, price |-> OrderPrice]}
Accounts ==
    {[equity |-> e, initial_capital |-> initial_capital] :
        e \in {initial_capital, initial_capital - 15000}}
PositionLists ==
    {<<>>, <<[quantity |-> 660, market_value |-> 660 * MarketPrice]>>}
DailyPnls == {0, 0 - 2000}

CheckOrder ==
    /\ risk_calls.check_order < MaxChecks
    /\ \E order \in RiskOrders, account \in Accounts, ps \in PositionLists :
          LET r == check_order(order, account, ps)
          IN  /\ check_result' = [is_safe |-> r.is_safe, violations |-> r.violations]
              /\ order_timestamps' = r.order_timestamps
              /\ peak_equity' = r.peak_equity
              /\ current_drawdown' = r.current_drawdown
    /\ risk_calls' = [risk_calls EXCEPT !.check_order = @ + 1]
    /\ UNCHANGED <<oms_vars, broker_vars, enable_kill_switch, kill_switch_active,
                   violations, daily_pnl, now, bus_vars, engine_vars, ext_vars, obs_vars>>

\* RiskManager.update_daily_pnl(pnl)
UpdateDailyPnl ==
    /\ \E pnl \in DailyPnls : daily_pnl' = pnl
    /\ UNCHANGED <<oms_vars, broker_vars, enable_kill_switch, kill_switch_active,
                   violations, peak_equity, current_drawdown, order_timestamps,
                   now, check_result, risk_calls, bus_vars, engine_vars, ext_vars, obs_vars>>

\* RiskManager.reset_daily_metrics()
ResetDailyMetrics ==
    /\ daily_pnl' = 0
    /\ order_timestamps' = <<>>
    /\ UNCHANGED <<oms_vars, broker_vars, enable_kill_switch, kill_switch_active,
                   violations, peak_equity, current_drawdown, now, check_result,
                   risk_calls, bus_vars, engine_vars, ext_vars, obs_vars>>

\* RiskManager.trigger_kill_switch(reason): does nothing when the kill switch
\* is disabled; violations counts the entries of self.violations.
trigger_kill_switch ==
    IF ~enable_kill_switch
    THEN UNCHANGED <<kill_switch_active, violations>>
    ELSE /\ kill_switch_active' = TRUE
         /\ violations' = violations + 1

TriggerKillSwitch ==
    /\ violations < MaxTriggers
    /\ trigger_kill_switch
    /\ risk_calls' = [risk_calls EXCEPT !.switch = "trigger_kill_switch"]
    /\ UNCHANGED <<oms_vars, broker_vars, enable_kill_switch, daily_pnl, peak_equity,
                   current_drawdown, order_timestamps, now, check_result,
                   bus_vars, engine_vars, ext_vars, obs_vars>>

\* RiskManager.deactivate_kill_switch()
DeactivateKillSwitch ==
    /\ kill_switch_active' = FALSE
    /\ risk_calls' = [risk_calls EXCEPT !.switch = "deactivate_kill_switch"]
    /\ UNCHANGED <<oms_vars, broker_vars, enable_kill_switch, violations, daily_pnl,
                   peak_equity, current_drawdown, order_timestamps, now,
                   check_result, bus_vars, engine_vars, ext_vars, obs_vars>>

\* datetime.now() advances by a second or by a minute.
Tick ==
    /\ now < MaxTime
    /\ \E d \in {OneSecond, OneMinute} : now' = now + d
    /\ UNCHANGED <<oms_vars, broker_vars, enable_kill_switch, kill_switch_active,
                   violations, daily_pnl, peak_equity, current_drawdown,
                   order_timestamps, check_result, risk_calls, bus_vars, engine_vars, ext_vars, obs_vars>>

-----------------------------------------------------------------------------
(* events.py: Event and EventBus *)

\* Event.__lt__ (dataclass(order=True)): only the priority field is compared.
EventLt(a, b) == a.priority < b.priority

\* The PriorityQueue of EventBus.__init__ keeps its items in a binary heap
\* (heapq); the heap is the sequence event_queue, position i of the Python
\* list being element i + 1.
RECURSIVE SiftDownLoop(_, _, _, _)
SiftDownLoop(heap, startpos, pos, newitem) ==
    IF pos > startpos
    THEN LET parentpos == (pos - 1) \div 2
             parent == heap[parentpos + 1]
         IN  IF EventLt(newitem, parent)
             THEN SiftDownLoop([heap EXCEPT ![pos + 1] = parent],
                               startpos, parentpos, newitem)
             ELSE [heap EXCEPT ![pos + 1] = newitem]
    ELSE [heap EXCEPT ![pos + 1] = newitem]

\* heapq._siftdown(heap, startpos, pos)
_siftdown(heap, startpos, pos) == SiftDownLoop(heap, startpos, pos, heap[pos + 1])

RECURSIVE SiftUpLoop(_, _, _, _, _)
SiftUpLoop(heap, startpos, pos, childpos, newitem) ==
    IF childpos < Len(heap)
    THEN LET rightpos == childpos + 1
             c == IF /\ rightpos < Len(heap)
                     /\ ~EventLt(heap[childpos + 1], heap[rightpos + 1])
                  THEN rightpos ELSE childpos
         IN  SiftUpLoop([heap EXCEPT ![pos + 1] = heap[c + 1]],
                        startpos, c, 2 * c + 1, newitem)
    ELSE _siftdown([heap EXCEPT ![pos + 1] = newitem], startpos, pos)

\* heapq._siftup(heap, pos)
_siftup(heap, pos) == SiftUpLoop(heap, pos, pos, 2 * pos + 1, heap[pos + 1])

\* PriorityQueue._put: heappush(queue, item)
heappush(heap, item) == _siftdown(Append(heap, item), 0, Len(heap))

\* A wrong PriorityQueue._get: the item at the end of the list is taken.
heappop_last(heap) ==
    [item |-> heap[Len(heap)], heap |-> SubSeq(heap, 1, Len(heap) - 1)]

\* PriorityQueue._get: heappop(queue), for a non-empty heap
heappop(heap) ==
    LET lastelt == heap[Len(heap)]
        rest == SubSeq(heap, 1, Len(heap) - 1)
    IN  IF rest = <<>> THEN [item |-> lastelt, heap |-> <<>>]
        ELSE [item |-> rest[1], heap |-> _siftup([rest EXCEPT ![1] = lastelt], 0)]

\* EventBus(max_queue_size): the capacity of the queue.
max_queue_size == 2
\* Number of events for which publish returns normally.
MaxEvents == 3
\* Number of start() calls that create a dispatcher thread.
MaxThreads == 2
\* Number of handlers subscribed to an event type that has subscribers.
NumHandlers == 2

\* The priority values publishers use: 0 for system events, 1 for ticks, 5
\* for heartbeats.
Priorities == {0, 1, 5}

\* The events publishers build: signals of every priority and the engine's
\* heartbeats; only "signal" events have subscribers.
EventTypes == {"signal", "heartbeat"}
Subscribed == {"signal"}
Events ==
    [priority : Priorities, event_type : {"signal"}]
        \cup [priority : {5}, event_type : {"heartbeat"}]

\* EventBus._subscribers: per subscribed event type, the list of handlers
\* (subscribe appends); the handlers of a list are numbered 1..n.
_subscribers == [et \in Subscribed |-> NumHandlers]

\* A dispatcher thread that is not inside _dispatch_event: it holds no event,
\* no list of subscribers and no handler is in progress.
Looping(pc) == [pc |-> pc, event |-> None, subscribers |-> 0, handler |-> 0]

\* Events taken from the queue by a dispatcher thread and not yet counted.
RECURSIVE InFlight(_)
InFlight(ts) ==
    IF ts = <<>> THEN 0
    ELSE (IF Head(ts).pc \in {"dispatch", "handler"} THEN 1 ELSE 0)
             + InFlight(Tail(ts))

\* A wrong publish: on a full queue the event is dropped and the call returns.
publish_drops_when_full(queue, event) ==
    [raised |-> FALSE,
     queue |-> IF Len(queue) >= max_queue_size THEN queue
               ELSE heappush(queue, event)]

\* EventBus.publish(event): self._event_queue.put(event, block=False).  On a
\* queue that holds maxsize items put raises Full, which publish logs and
\* raises again; otherwise the event is pushed on the heap.
publish(queue, event) ==
    IF Len(queue) >= max_queue_size
    THEN [raised |-> TRUE, queue |-> queue]
    ELSE [raised |-> FALSE, queue |-> heappush(queue, event)]

\* A call publish(event): when it returns normally the publisher has one more
\* accepted event.
PublishEvent(event) ==
    /\ LET r == publish(event_queue, event)
       IN  /\ event_queue' = r.queue
           /\ bus_log' = [bus_log EXCEPT
                             !.accepted = IF r.raised THEN @ ELSE @ + 1]
    /\ UNCHANGED <<oms_vars, broker_vars, risk_vars, running, stop_event, threads,
                   event_count, error_count, stopper, obs_vars, engine_vars, ext_vars>>

Publish ==
    /\ \/ bus_log.accepted < MaxEvents
       \/ Len(event_queue) >= max_queue_size
    /\ \E event \in Events : PublishEvent(event)

\* EventBus.clear_queue(): get_nowait until the queue is empty.
ClearQueue ==
    /\ event_queue # <<>>
    /\ event_queue' = <<>>
    /\ bus_log' = [bus_log EXCEPT !.cleared = @ + Len(event_queue)]
    /\ UNCHANGED <<oms_vars, broker_vars, risk_vars, running, stop_event, threads,
                   event_count, error_count, stopper, obs_vars, engine_vars, ext_vars>>

\* EventBus.start(): a second start while running does nothing; otherwise a
\* new dispatcher thread is created and becomes self._thread.  start and stop
\* are called by one controlling thread.
Start ==
    /\ Len(threads) < MaxThreads
    /\ stopper # "join"
    /\ IF running
       THEN UNCHANGED <<running, stop_event, threads, stopper>>
       ELSE /\ running' = TRUE
            /\ stop_event' = FALSE
            /\ threads' = Append(threads, Looping("while"))
            /\ stopper' = "idle"
    /\ UNCHANGED <<oms_vars, broker_vars, risk_vars, event_queue, event_count,
                   error_count, bus_log, obs_vars, engine_vars, ext_vars>>

\* EventBus.stop(timeout), up to the join: on a bus that is not running it
\* returns at once; otherwise it clears the flag, sets the stop event and
\* waits for self._thread (the thread of the last start).
Stop ==
    /\ stopper # "join"
    /\ IF ~running
       THEN UNCHANGED <<running, stop_event, stopper>>
       ELSE /\ running' = FALSE
            /\ stop_event' = TRUE
            /\ stopper' = "join"
    /\ UNCHANGED <<oms_vars, broker_vars, risk_vars, event_queue, threads,
                   event_count, error_count, bus_log, obs_vars, engine_vars, ext_vars>>

\* EventBus.stop(timeout), the join and the return: self._thread.join(timeout)
\* returns when the thread has ended, or when the timeout has passed with the
\* thread still alive, which is only logged.
StopReturn ==
    /\ stopper = "join"
    /\ stopper' = IF threads[Len(threads)].pc = "done" THEN "joined" ELSE "timeout"
    /\ UNCHANGED <<oms_vars, broker_vars, risk_vars, event_queue, running,
                   stop_event, threads, event_count, error_count, bus_log,
                   obs_vars, engine_vars, ext_vars>>

\* EventBus._process_events, thread t: the test of "while self._running"
LoopTest(t) ==
    /\ threads[t].pc = "while"
    /\ threads' = [threads EXCEPT ![t].pc = IF running THEN "get" ELSE "done"]
    /\ UNCHANGED <<oms_vars, broker_vars, risk_vars, event_queue, running,
                   stop_event, event_count, error_count, stopper, bus_log,
                   obs_vars, engine_vars, ext_vars>>

\* EventBus._process_events, thread t: self._event_queue.get(timeout=0.1);
\* on an empty queue the get times out (Empty) and the loop continues.
Get(t) ==
    /\ threads[t].pc = "get"
    /\ IF event_queue = <<>>
       THEN /\ threads' = [threads EXCEPT ![t].pc = "while"]
            /\ UNCHANGED event_queue
       ELSE LET r == heappop(event_queue)
            IN  /\ event_queue' = r.heap
                /\ threads' = [threads EXCEPT ![t] =
                                  [Looping("dispatch") EXCEPT !.event = r.item]]
    /\ UNCHANGED <<oms_vars, broker_vars, risk_vars, running, stop_event,
                   event_count, error_count, stopper, bus_log, obs_vars, engine_vars, ext_vars>>

\* EventBus._process_events, thread t: self._dispatch_event(event) is entered.
\* An event type without subscribers returns at once and the event is
\* counted; otherwise the list of the type's handlers is read into the local
\* variable subscribers and its first handler is called.  The handlers of the
\* model do not read the event they are given, so the thread record keeps
\* the event only until the first handler is called.
Dispatch(t) ==
    /\ threads[t].pc = "dispatch"
    /\ IF threads[t].event.event_type \notin DOMAIN _subscribers
       THEN /\ threads' = [threads EXCEPT ![t] = Looping("while")]
            /\ event_count' = event_count + 1
       ELSE /\ threads' = [threads EXCEPT ![t] =
                              [Looping("handler") EXCEPT
                                  !.subscribers =
                                      _subscribers[threads[t].event.event_type],
                                  !.handler = 1]]
            /\ UNCHANGED event_count
    /\ UNCHANGED <<oms_vars, broker_vars, risk_vars, event_queue, running,
                   stop_event, error_count, stopper, bus_log, obs_vars, engine_vars, ext_vars>>

\* A wrong _dispatch_event: the exception of a handler leaves the for loop,
\* so the handlers after it are not called.
after_handler_raise_leaves_loop(h, n, raises) ==
    [next |-> IF raises THEN n + 1 ELSE h + 1,
     errors |-> IF raises THEN 1 ELSE 0]

\* EventBus._dispatch_event, the body of "for handler in subscribers" once
\* handler h of n has returned or raised: an exception is caught, logged and
\* counted, and the loop goes on to the next handler.
after_handler(h, n, raises) ==
    [next |-> h + 1,
     errors |-> IF raises THEN 1 ELSE 0]

\* EventBus._dispatch_event, thread t: the handler in progress returns or
\* raises; the next handler is called, or _dispatch_event returns, the event
\* is counted and the thread is back at the loop test.
HandlerEnds(t, raises) ==
    /\ threads[t].pc = "handler"
    /\ LET th == threads[t]
           n == th.subscribers
           r == after_handler(th.handler, n, raises)
       IN  /\ error_count' = error_count + r.errors
           /\ IF r.next <= n
              THEN /\ threads' = [threads EXCEPT ![t].handler = r.next]
                   /\ UNCHANGED event_count
              ELSE /\ threads' = [threads EXCEPT ![t] = Looping("while")]
                   /\ event_count' = event_count + 1
    /\ UNCHANGED <<oms_vars, broker_vars, risk_vars, event_queue, running,
                   stop_event, stopper, bus_log, obs_vars, engine_vars, ext_vars>>

\* Whether the handler returns or raises is the handler's choice.
HandlerReturn(t) == \E raises \in BOOLEAN : HandlerEnds(t, raises)

-----------------------------------------------------------------------------
(* live_engine.py: LiveExecutionEngine *)

\* EngineState
EngineState == {"created", "starting", "running", "paused", "stopping",
                "stopped", "error"}

\* Number of start() calls that launch the background workers.
MaxStarts == 2

\* LiveExecutionEngine._setup_event_subscriptions: the event types the engine
\* subscribes a handler to.
engine_subscriptions ==
    {"signal", "fill", "order_submitted", "order_rejected", "market_data",
     "risk_violation"}

\* The payload of the signals the strategy publishes.
SignalData ==
    [action |-> "buy", symbol |-> "AAPL", quantity |-> LotSize, price |-> None]

\* The events published on the engine's bus by the strategy (signals), the
\* risk monitoring (violations of two severities), the market data feed and
\* the market data stream (ZerodhaWebSocket._publish_tick_event).
SignalEvent == [priority |-> 1, event_type |-> "signal", data |-> SignalData]
RiskEvent(severity) ==
    [priority |-> 0, event_type |-> "risk_violation",
     data |-> [severity |-> severity]]
MarketDataEvent ==
    [priority |-> 0, event_type |-> "market_data",
     data |-> [last_price |-> MarketPrice]]
TickEvent ==
    [priority |-> 1, event_type |-> "tick", data |-> [last_price |-> MarketPrice]]
TradingEvents == {SignalEvent, RiskEvent("critical"), RiskEvent("high")}
DataEvents == {MarketDataEvent, TickEvent}

\* The events the engine publishes itself in start and stop.
SystemStart ==
    [priority |-> 0, event_type |-> "system_start",
     data |-> [engine |-> "live_execution"]]
SystemStop ==
    [priority |-> 0, event_type |-> "system_stop",
     data |-> [engine |-> "live_execution"]]

\* Number of events of one type in a sequence of events.
RECURSIVE CountType(_, _)
CountType(q, et) ==
    IF q = <<>> THEN 0
    ELSE (IF Head(q).event_type = et THEN 1 ELSE 0) + CountType(Tail(q), et)

\* Signal events published and not yet handled.
RECURSIVE HeldSignals(_)
HeldSignals(ts) ==
    IF ts = <<>> THEN 0
    ELSE (IF Head(ts).pc = "dispatch" /\ Head(ts).event.event_type = "signal"
          THEN 1 ELSE 0) + HeldSignals(Tail(ts))

\* LiveExecutionEngine._signal_to_order
_signal_to_order(signal_data) ==
    [symbol |-> signal_data.symbol,
     side |-> IF signal_data.action = "buy" THEN "buy" ELSE "sell",
     order_type |-> IF signal_data.price # None /\ signal_data.price # 0
                    THEN "limit" ELSE "market",
     quantity |-> signal_data.quantity,
     price |-> signal_data.price,
     stop_price |-> None]

\* LiveExecutionEngine._sync_positions: every position the broker reports
\* overwrites the strategy's entry for its symbol.
_sync_positions(sp, broker_positions) ==
    [s \in DOMAIN sp \cup DOMAIN broker_positions |->
        IF s \in DOMAIN broker_positions THEN broker_positions[s] ELSE sp[s]]

\* No call of start or stop is in progress.
NoCall == <<"none", "none">>

\* The record of a call of the engine: the engine state it found and what it
\* returned or did.
Called(op, st, ret) == [op |-> op, state |-> st, ret |-> ret]

\* A wrong start(): only an engine that is Starting refuses the call.
start_refused_only_starting(st) == st = "starting"

\* LiveExecutionEngine.start, lines 129-131: the call is refused when the
\* engine is Running or Starting.
start_refused(st) == st \in {"running", "starting"}

\* A strategy or a caller publishes an event on the engine's bus.  Every
\* signal that is handled may create an Order object, so signals are
\* published while Order objects are left.
PublishFrom(events) ==
    /\ \/ bus_log.accepted < MaxEvents
       \/ Len(event_queue) >= max_queue_size
    /\ \E event \in events :
          /\ event.event_type = "signal" =>
                 Cardinality(DOMAIN orders) + CountType(event_queue, "signal")
                     + HeldSignals(threads) < MaxOrders
          /\ PublishEvent(event)

\* The strategy publishes a signal, the risk monitoring a violation.
EnginePublish == PublishFrom(TradingEvents)

\* The market data feed publishes a MarketData event, the stream a Tick.
StreamPublish == PublishFrom(DataEvents)

\* A heartbeat thread: its position in _heartbeat_loop ("while": at the test
\* of the loop; "beat": in the body; "reconnect": in the loop of
\* _handle_disconnect; "stop": inside the stop() that _handle_disconnect
\* called; "returned": back from that stop(); "wait": in the wait on
\* self._stop_event; "done") and the index of the next attempt of
\* _handle_disconnect; stale: the thread has not made the first test of its
\* loop and was launched while self._stop_event was set.
Beating(pc) == [pc |-> pc, attempt |-> 0, stale |-> FALSE]

\* A worker launched by start(): at the first test of its loop, for which it
\* may have read the flag before start() cleared it.
launched_worker(flag) == [Beating("while") EXCEPT !.stale = flag]

\* The values the test of the loop can read for self._stop_event.is_set():
\* the flag as it is, and for the first test of a thread launched while the
\* flag was set, its value before the clear of line 161.
loop_test_reads(hb, flag) == IF hb.stale THEN {TRUE, flag} ELSE {flag}

\* stop() has set the flag (line 194): the value before the clear and the
\* current value are the same for every worker that has not tested it yet.
flag_set(hb) == [h \in DOMAIN hb |-> [hb[h] EXCEPT !.stale = FALSE]]

\* The stop() a heartbeat thread is inside of returns to it.
stop_returns(hb) ==
    [h \in DOMAIN hb |->
        IF hb[h].pc = "stop" THEN Beating("returned") ELSE hb[h]]

\* LiveExecutionEngine.start(), lines 122-134: a refused call returns False
\* and changes nothing; otherwise the engine is Starting.
EngineStart ==
    /\ IF start_refused(state)
       THEN /\ engine_log' = Called("start", state, "False")
            /\ UNCHANGED <<state, control>>
       ELSE /\ control = NoCall
            /\ workers < MaxStarts
            /\ running \/ Len(threads) < MaxThreads
            /\ state' = "starting"
            /\ control' = <<"start", state>>
            /\ engine_log' = Called("start", state, "starting")
    /\ UNCHANGED <<oms_vars, broker_vars, risk_vars, ext_vars, bus_vars, obs_vars,
                   engine_stop_event, dry_run, risk_pause, heartbeat, signals_received,
                   strategy_positions, workers>>

\* LiveExecutionEngine.start(), lines 136-179: connect the broker, start the
\* bus when it is not running, strategy.set_event_bus and on_start (which may
\* raise), the initial position sync, the background workers, state Running,
\* self._stop_event.clear(), publish SystemStart (which raises on a full
\* queue).  An exception leaves the engine in Error and returns False.
\* The callers of _sync_positions() outside start, stop and reconnect: the
\* position-sync worker (line 283) and the fill handler (line 388).
SyncCallers == {"_position_sync_loop", "_on_fill"}

\* One call of _sync_positions() that completes without error, made by the
\* position-sync worker or by _on_fill after strategy.on_fill returned.
PositionSync ==
    /\ strategy_positions' = _sync_positions(strategy_positions, positions)
    /\ \E caller \in SyncCallers :
          engine_log' = Called("_sync_positions", state, caller)
    /\ UNCHANGED <<oms_vars, broker_vars, risk_vars, bus_vars, obs_vars, ext_vars,
                   state, control, engine_stop_event, dry_run, signals_received,
                   workers, risk_pause, heartbeat>>

\* The workers are launched at line 156 and the flag is cleared at line 161:
\* the new heartbeat thread may make the first test of its loop before the
\* clear, and then reads the flag as start() found it.
EngineStartComplete ==
    /\ control[1] = "start"
    /\ control' = NoCall
    /\ connected' = TRUE
    /\ running' = TRUE
    /\ stop_event' = IF running THEN stop_event ELSE FALSE
    /\ threads' = IF running THEN threads ELSE Append(threads, Looping("while"))
    /\ stopper' = IF running THEN stopper ELSE "idle"
    /\ \E on_start_raises \in BOOLEAN :
          IF on_start_raises
          THEN /\ state' = "error"
               /\ engine_log' = Called("start", control[2], "False")
               /\ UNCHANGED <<event_queue, bus_log, strategy_positions, workers,
                              heartbeat, engine_stop_event>>
          ELSE LET r == publish(event_queue, SystemStart)
               IN  /\ strategy_positions' =
                          _sync_positions(strategy_positions, positions)
                   /\ workers' = workers + 1
                   /\ heartbeat' = Append(heartbeat,
                                          launched_worker(engine_stop_event))
                   /\ engine_stop_event' = FALSE
                   /\ event_queue' = r.queue
                   /\ bus_log' = [bus_log EXCEPT
                                     !.accepted = IF r.raised THEN @ ELSE @ + 1]
                   /\ state' = IF r.raised THEN "error" ELSE "running"
                   /\ engine_log' = Called("start", control[2],
                                            IF r.raised THEN "False" ELSE "True")
    /\ UNCHANGED <<oms_vars, cash, positions, broker_orders, current_prices,
                   risk_vars, ext_vars, event_count, error_count, obs_vars, dry_run,
                   risk_pause, signals_received>>

\* LiveExecutionEngine.stop(timeout), lines 181-194: nothing on a Stopped
\* engine; otherwise the engine is Stopping and self._stop_event is set.
EngineStop ==
    /\ control = NoCall
    /\ IF state = "stopped"
       THEN /\ engine_log' = Called("stop", state, "returned")
            /\ UNCHANGED <<state, control, engine_stop_event, heartbeat>>
       ELSE /\ state' = "stopping"
            /\ control' = <<"stop", state>>
            /\ engine_stop_event' = TRUE
            /\ heartbeat' = flag_set(heartbeat)
            /\ engine_log' = Called("stop", state, "stopping")
    /\ UNCHANGED <<oms_vars, broker_vars, risk_vars, ext_vars, bus_vars, obs_vars, dry_run, risk_pause,
                   signals_received, strategy_positions, workers>>

\* A wrong stop(): the engine is Stopped even when the stop sequence raised.
stop_outcome_always_stopped(raised) == "stopped"

\* LiveExecutionEngine.stop, lines 228-233: Stopped at the end of the stop
\* sequence, Error when a step of it raised.
stop_outcome(raised) == IF raised THEN "error" ELSE "stopped"

\* PaperBroker.cancel_order applied to every order of get_open_orders().
cancel_open_orders(os) ==
    [id \in DOMAIN os |->
        IF id \in broker_orders /\ is_open(os[id])
              /\ os[id].status \in {"pending", "submitted"}
        THEN [os[id] EXCEPT !.status = "cancelled"]
        ELSE os[id]]

\* LiveExecutionEngine.stop(timeout), lines 196-214: strategy.on_stop (which
\* may raise: the engine is left in Error), cancel the open broker orders,
\* join the workers, EventBus.stop up to its join: a running bus is told to
\* stop.
StopStrategy(on_stop_raises) ==
    /\ control[1] = "stop"
    /\ IF on_stop_raises
       THEN /\ state' = stop_outcome(TRUE)
            /\ control' = NoCall
            /\ engine_log' = Called("stop", control[2], "returned")
            /\ heartbeat' = stop_returns(heartbeat)
            /\ UNCHANGED <<orders, running, stop_event, stopper>>
       ELSE /\ orders' = cancel_open_orders(orders)
            /\ running' = FALSE
            /\ stop_event' = IF running THEN TRUE ELSE stop_event
            /\ stopper' = IF running THEN "join" ELSE stopper
            /\ control' = <<"join", control[2]>>
            /\ UNCHANGED <<state, engine_log, heartbeat>>
    /\ UNCHANGED <<enable_validation, oms_orders, oms_fills, pending_orders, stats,
                   broker_vars, risk_vars, ext_vars, event_queue, threads, event_count,
                   error_count, bus_log, obs_vars, engine_stop_event, dry_run,
                   risk_pause, signals_received, strategy_positions, workers>>

EngineStopBus == \E on_stop_raises \in BOOLEAN : StopStrategy(on_stop_raises)

\* The join of EventBus.stop as the engine calls it, with half of the
\* default timeout of 30 s: a dispatcher thread that is not inside a handler
\* ends within the 0.1 s of its wait on the queue, so the join returns when
\* the thread has ended, or times out on a thread that is inside a handler.
bus_join_returns ==
    stopper = "join" => threads[Len(threads)].pc \in {"done", "dispatch"}

\* LiveExecutionEngine.stop(timeout), lines 214-233: the join of the bus
\* returns, the final position sync, publish SystemStop (which raises on a
\* full queue: the engine is left in Error), state Stopped.
EngineStopComplete ==
    /\ control[1] = "join"
    /\ bus_join_returns
    /\ control' = NoCall
    /\ engine_log' = Called("stop", control[2], "returned")
    /\ stopper' = IF stopper # "join" THEN stopper
                  ELSE IF threads[Len(threads)].pc = "done"
                       THEN "joined" ELSE "timeout"
    /\ strategy_positions' = _sync_positions(strategy_positions, positions)
    /\ heartbeat' = stop_returns(heartbeat)
    /\ LET r == publish(event_queue, SystemStop)
       IN  /\ event_queue' = r.queue
           /\ bus_log' = [bus_log EXCEPT !.accepted = IF r.raised THEN @ ELSE @ + 1]
           /\ state' = stop_outcome(r.raised)
    /\ UNCHANGED <<oms_vars, broker_vars, risk_vars, ext_vars, running, stop_event, threads,
                   event_count, error_count, obs_vars, engine_stop_event, dry_run,
                   risk_pause, signals_received, workers>>

\* LiveExecutionEngine.pause()
EnginePause ==
    /\ state' = IF state = "running" THEN "paused" ELSE state
    /\ UNCHANGED <<oms_vars, broker_vars, risk_vars, ext_vars, bus_vars, obs_vars, control,
                   engine_stop_event, dry_run, risk_pause, heartbeat, signals_received,
                   strategy_positions, workers, engine_log>>

\* LiveExecutionEngine.resume()
EngineResume ==
    /\ state' = IF state = "paused" THEN "running" ELSE state
    /\ risk_pause' = FALSE
    /\ UNCHANGED <<oms_vars, broker_vars, risk_vars, ext_vars, bus_vars, obs_vars, control,
                   engine_stop_event, dry_run, signals_received,
                   strategy_positions, workers, heartbeat, engine_log>>

\* A wrong _on_signal: only a Stopped engine drops the signal.
signal_dropped_when_stopped(st) == st = "stopped"

\* LiveExecutionEngine._on_signal, lines 353-355: the signal is dropped
\* unless the engine is Running.
signal_dropped(st) == st # "running"

\* LiveExecutionEngine._on_signal(event): dropped unless the engine is
\* Running; counted; in dry run nothing more; otherwise the order built from
\* the signal is a new Order object given to OrderManager.submit_order.
_on_signal(event) ==
    IF signal_dropped(state)
    THEN /\ engine_log' = Called("_on_signal", state, "dropped")
         /\ UNCHANGED <<oms_vars, broker_vars, obs_vars, state, signals_received,
                        risk_pause>>
    ELSE /\ signals_received' = signals_received + 1
         /\ IF dry_run
            THEN /\ engine_log' = Called("_on_signal", state, "dry_run")
                 /\ UNCHANGED <<oms_vars, broker_vars, obs_vars>>
            ELSE /\ engine_log' = Called("_on_signal", state, "submit_order")
                 /\ submit_order(Cardinality(DOMAIN orders) + 1,
                                 NewOrder(_signal_to_order(event.data)))
                 /\ UNCHANGED <<enable_validation, oms_fills, connected,
                                current_prices>>
         /\ UNCHANGED <<state, risk_pause>>

\* LiveExecutionEngine._on_market_data(event): strategy.on_data(event)
_on_market_data(event) ==
    /\ engine_log' = Called("_on_market_data", state, "on_data")
    /\ UNCHANGED <<oms_vars, broker_vars, obs_vars, state, signals_received,
                   risk_pause>>

\* LiveExecutionEngine._on_risk_violation, line 411: the severities that
\* call pause().
pauses(severity) == severity = "critical"

\* LiveExecutionEngine._on_risk_violation(event): a Critical violation calls
\* pause(), which acts on a Running engine only.
_on_risk_violation(event) ==
    /\ state' = IF pauses(event.data.severity) /\ state = "running"
                THEN "paused" ELSE state
    /\ engine_log' = Called("_on_risk_violation", state,
                            IF pauses(event.data.severity) THEN "pause" ELSE "none")
    /\ risk_pause' = (risk_pause \/ (pauses(event.data.severity) /\ state = "running"))
    /\ UNCHANGED <<oms_vars, broker_vars, obs_vars, signals_received>>

\* The dispatcher thread t of the engine's bus, in _dispatch_event with the
\* event it took: the engine's handler of the event's type is called; an
\* event of a type the engine has not subscribed to has no handler.  Then the
\* event is counted and the thread is back at its loop test.
EngineHandle(t) ==
    /\ threads[t].pc = "dispatch"
    /\ LET event == threads[t].event
       IN  IF event.event_type \notin engine_subscriptions
           THEN /\ engine_log' = Called("no handler", state, event.event_type)
                /\ UNCHANGED <<oms_vars, broker_vars, obs_vars, state,
                               signals_received, risk_pause>>
           ELSE IF event.event_type = "signal" THEN _on_signal(event)
           ELSE IF event.event_type = "market_data" THEN _on_market_data(event)
           ELSE IF event.event_type = "risk_violation"
                THEN _on_risk_violation(event)
           ELSE /\ engine_log' = Called(event.event_type, state, "counted")
                /\ UNCHANGED <<oms_vars, broker_vars, obs_vars, state,
                               signals_received, risk_pause>>
    /\ threads' = [threads EXCEPT ![t] = Looping("while")]
    /\ event_count' = event_count + 1
    /\ UNCHANGED <<risk_vars, ext_vars, event_queue, running, stop_event, error_count,
                   stopper, bus_log, control, engine_stop_event, dry_run,
                   strategy_positions, workers, heartbeat>>

-----------------------------------------------------------------------------
(* live_engine.py: the heartbeat worker *)

max_reconnect_attempts == 5

HeartbeatEvent ==
    [priority |-> 5, event_type |-> "heartbeat",
     data |-> [source |-> "live_engine"]]

\* _heartbeat_loop, line 292: the test of the loop.
HeartbeatTest(h) ==
    /\ heartbeat[h].pc = "while"
    /\ \E is_set \in loop_test_reads(heartbeat[h], engine_stop_event) :
          heartbeat' = [heartbeat EXCEPT
                           ![h] = Beating(IF is_set THEN "done" ELSE "beat")]
    /\ UNCHANGED <<oms_vars, broker_vars, risk_vars, bus_vars, obs_vars, ext_vars,
                   state, control, engine_stop_event, dry_run, signals_received,
                   strategy_positions, workers, risk_pause, engine_log>>

\* _heartbeat_loop, lines 293-309: publish a Heartbeat event; a full queue
\* raises, the exception is logged at line 312 and the loop goes on without
\* the check of the connection and without the wait.  Then the check: a
\* Running engine whose broker is not connected calls _handle_disconnect.
HeartbeatBeat(h) ==
    /\ heartbeat[h].pc = "beat"
    /\ \/ bus_log.accepted < MaxEvents
       \/ Len(event_queue) >= max_queue_size
    /\ LET r == publish(event_queue, HeartbeatEvent)
       IN  /\ event_queue' = r.queue
           /\ bus_log' = [bus_log EXCEPT !.accepted = IF r.raised THEN @ ELSE @ + 1]
           /\ heartbeat' = [heartbeat EXCEPT ![h] =
                  Beating(IF r.raised THEN "while"
                          ELSE IF state = "running" /\ ~connected
                               THEN "reconnect" ELSE "wait")]
    /\ UNCHANGED <<oms_vars, broker_vars, risk_vars, running, stop_event, threads,
                   event_count, error_count, stopper, obs_vars, ext_vars,
                   state, control, engine_stop_event, dry_run, signals_received,
                   strategy_positions, workers, risk_pause, engine_log>>

\* _heartbeat_loop, line 311: the wait on self._stop_event returns, after
\* heartbeat_interval or because the event is set.
HeartbeatWait(h) ==
    /\ heartbeat[h].pc \in {"wait", "returned"}
    /\ heartbeat' = [heartbeat EXCEPT ![h] = Beating("while")]
    /\ UNCHANGED <<oms_vars, broker_vars, risk_vars, bus_vars, obs_vars, ext_vars,
                   state, control, engine_stop_event, dry_run, signals_received,
                   strategy_positions, workers, risk_pause, engine_log>>

\* _handle_disconnect, lines 333-344: one round of the loop.  The broker's
\* connect() returns True (the positions are resynced and the routine
\* returns), or it returns False or raises (the next round after
\* reconnect_delay).
Reconnect(h, connects) ==
    /\ heartbeat[h].pc = "reconnect"
    /\ heartbeat[h].attempt < max_reconnect_attempts
    /\ IF connects
       THEN /\ connected' = TRUE
            /\ strategy_positions' = _sync_positions(strategy_positions, positions)
            /\ heartbeat' = [heartbeat EXCEPT ![h] = Beating("wait")]
       ELSE /\ heartbeat' = [heartbeat EXCEPT ![h].attempt = @ + 1]
            /\ UNCHANGED <<connected, strategy_positions>>
    /\ UNCHANGED <<oms_vars, cash, positions, broker_orders, current_prices,
                   risk_vars, bus_vars, obs_vars, ext_vars, state, control,
                   engine_stop_event, dry_run, signals_received, workers,
                   risk_pause, engine_log>>

ReconnectAttempt(h) == \E connects \in BOOLEAN : Reconnect(h, connects)

\* _handle_disconnect, lines 346-347, with stop(), lines 188-233, as the
\* heartbeat thread runs it: every attempt has failed and the thread calls
\* self.stop().  On a Stopped engine stop() returns at once.  In the thread
\* self._heartbeat_thread refers to (the one the last start() launched) the
\* stop sequence reaches self._heartbeat_thread.join at line 211, which
\* raises RuntimeError in the thread it is asked to join, and the handler of
\* line 231 leaves the engine in Error: the bus is not stopped and no
\* SystemStop is published.  In an older heartbeat thread the stop sequence
\* goes on as in any other caller.
HandleDisconnectStop(h) ==
    /\ heartbeat[h].pc = "reconnect"
    /\ heartbeat[h].attempt = max_reconnect_attempts
    /\ control = NoCall
    /\ IF state = "stopped"
       THEN /\ heartbeat' = [heartbeat EXCEPT ![h] = Beating("returned")]
            /\ engine_log' = Called("stop", state, "returned")
            /\ UNCHANGED <<state, control, engine_stop_event, orders>>
       ELSE IF h = Len(heartbeat)
       THEN /\ state' = "error"
            /\ engine_stop_event' = TRUE
            /\ \E on_stop_raises \in BOOLEAN :
                  orders' = IF on_stop_raises THEN orders
                            ELSE cancel_open_orders(orders)
            /\ heartbeat' = [heartbeat EXCEPT ![h] = Beating("returned")]
            /\ engine_log' = Called("stop", state, "returned")
            /\ UNCHANGED control
       ELSE /\ state' = "stopping"
            /\ control' = <<"stop", state>>
            /\ engine_stop_event' = TRUE
            /\ heartbeat' = [heartbeat EXCEPT ![h] = Beating("stop")]
            /\ engine_log' = Called("stop", state, "stopping")
            /\ UNCHANGED orders
    /\ UNCHANGED <<enable_validation, oms_orders, oms_fills, pending_orders, stats,
                   broker_vars, risk_vars, bus_vars, obs_vars, ext_vars, dry_run,
                   signals_received, strategy_positions, workers, risk_pause>>

-----------------------------------------------------------------------------
(* persistence/state_store.py: StateStore *)

MaxSnapshots == 2
MaxCrashes == 2

\* The datetime values of the snapshots: a second and a microsecond.
Datetimes == [second : 0..MaxTime, microsecond : {0, 1}]

\* datetime.isoformat(): the text of the value, without the fraction when the
\* microsecond is 0.  A text is the sequence of its fields.
isoformat(dt) ==
    IF dt.microsecond = 0 THEN <<dt.second>> ELSE <<dt.second, dt.microsecond>>

\* datetime.fromisoformat(text)
fromisoformat(text) ==
    [second |-> text[1], microsecond |-> IF Len(text) = 1 THEN 0 ELSE text[2]]

\* The order of two TEXT values in SQLite: the first field that differs
\* decides, and a text is greater than each of its proper prefixes.
RECURSIVE text_less(_, _)
text_less(a, b) ==
    IF b = <<>> THEN FALSE
    ELSE IF a = <<>> THEN TRUE
    ELSE IF Head(a) # Head(b) THEN Head(a) < Head(b)
    ELSE text_less(Tail(a), Tail(b))

\* json.dumps of a dict with string keys: the text of a JSON object, that is
\* its members; json.loads builds the dict from the members.  A list of
\* strings is written as a JSON array of the same strings in the same order.
json_dumps(d) == {<<k, d[k]>> : k \in DOMAIN d}
json_loads(members) ==
    [k \in {p[1] : p \in members} |-> (CHOOSE p \in members : p[1] = k)[2]]

\* EngineState snapshots (state_store.py, lines 17-27) handed to save_state.
Snapshots ==
    [timestamp : Datetimes,
     state : {"running", "paused"},
     strategy_name : {"ma_crossover"},
     broker_name : {"paper"},
     positions : {EmptyMap, [x \in {"AAPL"} |-> 5]},
     pending_orders : {<<>>, <<"oms_1">>},
     statistics : {[x \in {"signals_received"} |-> 1]}]

\* The row save_state inserts for a snapshot (the column created_at, which
\* nothing reads, is left out).
StateRow(s) ==
    [timestamp |-> isoformat(s.timestamp), state |-> s.state,
     strategy_name |-> s.strategy_name, broker_name |-> s.broker_name,
     positions |-> json_dumps(s.positions),
     pending_orders |-> s.pending_orders,
     statistics |-> json_dumps(s.statistics)]

\* The EngineState get_latest_state builds from a row.
FromRow(row) ==
    [timestamp |-> fromisoformat(row.timestamp), state |-> row.state,
     strategy_name |-> row.strategy_name, broker_name |-> row.broker_name,
     positions |-> json_loads(row.positions),
     pending_orders |-> row.pending_orders,
     statistics |-> json_loads(row.statistics)]

\* StateStore.save_state(state)
SaveState(s) ==
    /\ Len(engine_states) < MaxSnapshots
    /\ engine_states' = Append(engine_states, StateRow(s))
    /\ UNCHANGED <<core_vars, sync_vars, pnl_vars, ws_vars, call_vars, val_vars, crash_markers>>

\* StateStore.get_latest_state(): the snapshots the call can return, None on
\* an empty table.  The query is ORDER BY timestamp DESC LIMIT 1: a row with
\* the greatest timestamp text, any of them when several rows share it.
get_latest_state(rows) ==
    IF rows = <<>> THEN {None}
    ELSE {FromRow(rows[i]) :
             i \in {i \in DOMAIN rows :
                       \A j \in DOMAIN rows :
                          ~text_less(rows[i].timestamp, rows[j].timestamp)}}

\* StateStore.mark_crash(state_id): a new marker, not recovered (the
\* timestamps of the marker are left out).
MarkCrash ==
    /\ Len(crash_markers) < MaxCrashes
    /\ \E state_id \in {None} \cup DOMAIN engine_states :
          crash_markers' = Append(crash_markers,
              [engine_state_id |-> state_id, recovered |-> FALSE])
    /\ UNCHANGED <<core_vars, sync_vars, pnl_vars, ws_vars, call_vars, val_vars, engine_states>>

\* has_unrecovered_crash(): a row of crash_markers with recovered = 0.
has_unrecovered_crash(markers) ==
    \E id \in DOMAIN markers : ~markers[id].recovered

\* StateStore.mark_crash_recovered(crash_id): the UPDATE changes the row
\* with that id, if there is one.
MarkCrashRecovered ==
    /\ \E crash_id \in 1..MaxCrashes :
          crash_markers' =
              [id \in DOMAIN crash_markers |->
                  IF id = crash_id
                  THEN [crash_markers[id] EXCEPT !.recovered = TRUE]
                  ELSE crash_markers[id]]
    /\ UNCHANGED <<core_vars, sync_vars, pnl_vars, ws_vars, call_vars, val_vars, engine_states>>

-----------------------------------------------------------------------------
(* position_sync.py: PositionSynchronizer *)

MaxSyncs == 2

\* Quantities are counted in thousandths of a share: the tolerance 0.001 of
\* the quantity comparison is one unit.
Shares(n) == n * 1000
quantity_tolerance == 1

\* self.tolerance, the fraction by which average prices may differ.
tolerance_num == 1
tolerance_den == 100

\* The average price of every position the broker reports.
BrokerPrice == 100

\* The symbols, in the order in which the dicts are iterated.
SyncSymbols == <<"AAPL", "MSFT", "TSLA">>

\* PositionDiscrepancy (the price fields and the timestamp are left out).
Discrepancy(symbol, type, local_quantity, broker_quantity) ==
    [symbol |-> symbol, type |-> type, local_quantity |-> local_quantity,
     broker_quantity |-> broker_quantity, resolved |-> FALSE]

\* sync_positions, lines 163-174: the price check of one local symbol; no
\* check when local_prices is None or empty.
price_mismatch(prices, symbol) ==
    /\ symbol \in DOMAIN prices
    /\ Abs(BrokerPrice - prices[symbol]) * tolerance_den
           > tolerance_num * BrokerPrice

\* sync_positions, lines 135-174: the loop over the local positions, from
\* the i-th symbol on.
RECURSIVE check_local(_, _, _, _)
check_local(local, prices, broker, i) ==
    IF i > Len(SyncSymbols) THEN <<>>
    ELSE LET symbol == SyncSymbols[i]
             rest == check_local(local, prices, broker, i + 1)
         IN  IF symbol \notin DOMAIN local \/ local[symbol] = 0 THEN rest
             ELSE IF symbol \notin DOMAIN broker
             THEN <<Discrepancy(symbol, "missing_broker", local[symbol], 0)>>
                      \o rest
             ELSE (IF Abs(broker[symbol] - local[symbol]) > quantity_tolerance
                   THEN <<Discrepancy(symbol, "quantity_mismatch",
                                      local[symbol], broker[symbol])>>
                   ELSE <<>>)
                  \o (IF price_mismatch(prices, symbol)
                      THEN <<Discrepancy(symbol, "price_mismatch",
                                         local[symbol], broker[symbol])>>
                      ELSE <<>>)
                  \o rest

\* sync_positions, lines 176-188: the loop over the broker's positions.
RECURSIVE check_broker(_, _, _)
check_broker(local, broker, i) ==
    IF i > Len(SyncSymbols) THEN <<>>
    ELSE LET symbol == SyncSymbols[i]
             rest == check_broker(local, broker, i + 1)
         IN  IF symbol \notin DOMAIN broker \/ broker[symbol] = 0 THEN rest
             ELSE IF symbol \notin DOMAIN local \/ local[symbol] = 0
             THEN <<Discrepancy(symbol, "missing_local", 0, broker[symbol])>>
                      \o rest
             ELSE rest

\* A wrong reconciliation: an orphaned local position is kept.
reconciled_quantity_keeps_orphan(disc) ==
    IF disc.type = "missing_broker" THEN disc.local_quantity
    ELSE disc.broker_quantity

\* _reconcile_discrepancies, lines 235-251: the local quantity a discrepancy
\* of a kind other than PriceMismatch is fixed to.
reconciled_quantity(disc) ==
    IF disc.type = "missing_broker" THEN 0 ELSE disc.broker_quantity

\* _reconcile_discrepancies, lines 221-260: the local positions and the
\* discrepancies after the loop, from the i-th discrepancy on.
RECURSIVE _reconcile_discrepancies(_, _, _)
_reconcile_discrepancies(local, discrepancies, i) ==
    IF i > Len(discrepancies)
    THEN [local |-> local, discrepancies |-> discrepancies]
    ELSE LET disc == discrepancies[i]
         IN  IF disc.type = "price_mismatch"
             THEN _reconcile_discrepancies(local, discrepancies, i + 1)
             ELSE _reconcile_discrepancies(
                      Put(local, disc.symbol, reconciled_quantity(disc)),
                      [discrepancies EXCEPT ![i].resolved = TRUE], i + 1)

\* The number of non-zero values of a dict.
Held(d) == Cardinality({k \in DOMAIN d : d[k] # 0})

\* _get_broker_positions(), lines 213-219: the positions the broker
\* returns, or no position at all when get_positions raises.
_get_broker_positions(reported, raises) ==
    IF raises THEN EmptyMap ELSE reported

\* PositionSynchronizer.sync_positions(local_positions, local_prices), lines
\* 105-211.
SyncPositions ==
    /\ sync_count < MaxSyncs
    /\ sync_count' = sync_count + 1
    /\ LET reported == _get_broker_positions(broker_dict, get_positions_fails)
           discrepancies ==
               check_local(local_positions, local_prices, reported, 1)
                   \o check_broker(local_positions, reported, 1)
           synced == Len(discrepancies) = 0
           after == IF auto_reconcile /\ ~synced
                    THEN _reconcile_discrepancies(local_positions,
                                                  discrepancies, 1)
                    ELSE [local |-> local_positions,
                          discrepancies |-> discrepancies]
       IN  /\ local_positions' = after.local
           /\ reconciliation_history' = Append(reconciliation_history,
                  [total_positions_local |-> Held(local_positions),
                   total_positions_broker |-> Held(reported),
                   discrepancies |-> after.discrepancies,
                   synced |-> synced])
    /\ UNCHANGED <<core_vars, store_vars, pnl_vars, ws_vars, call_vars,
                   val_vars, local_prices, broker_dict, auto_reconcile,
                   get_positions_fails>>

\* ReconciliationReport.has_discrepancies: an unresolved discrepancy.
has_discrepancies(r) ==
    \E i \in DOMAIN r.discrepancies : ~r.discrepancies[i].resolved

-----------------------------------------------------------------------------
(* live_pnl.py: LivePnLTracker *)

MaxTrades == 2

\* The symbols of the tracker's callers, in the order in which the values
\* of _position_pnl are summed.
PnlSymbols == <<"AAPL", "MSFT">>

\* get_unrealized_pnl(): sum(self._position_pnl.values()), from the i-th
\* symbol on.
RECURSIVE get_unrealized_pnl(_, _)
get_unrealized_pnl(position_pnl, i) ==
    IF i > Len(PnlSymbols) THEN 0
    ELSE (IF PnlSymbols[i] \in DOMAIN position_pnl
          THEN position_pnl[PnlSymbols[i]] ELSE 0)
         + get_unrealized_pnl(position_pnl, i + 1)

\* A wrong total: the unrealized P&L is left out.
get_total_pnl_realized_only(realized, position_pnl) == realized

\* get_total_pnl()
get_total_pnl(realized, position_pnl) ==
    realized + get_unrealized_pnl(position_pnl, 1)

\* get_total_equity()
get_total_equity(capital, realized, position_pnl) ==
    capital + get_total_pnl(realized, position_pnl)

\* The drawdown percentage of lines 245 and 307, as a fraction <<n, d>>.
drawdown_pct(peak, equity) == Rat((peak - equity) * 100, peak)

\* get_current_drawdown(): 0.0 when the peak equity is 0.
get_current_drawdown(capital, realized, position_pnl, peak) ==
    IF peak = 0 THEN <<0, 1>>
    ELSE drawdown_pct(peak, get_total_equity(capital, realized, position_pnl))

\* update_position_pnl(symbol, quantity, average_price, current_price): the
\* dict after the call.
update_position_pnl(position_pnl, p) ==
    Put(position_pnl, p.symbol,
        IF p.quantity = 0 THEN 0
        ELSE (p.current_price - p.average_price) * p.quantity)

\* The positions update_position_pnl and update_from_positions are called
\* with: AAPL long or closed, MSFT short or closed, entered at 10 and marked
\* at 12.
TrackedPositions ==
    [symbol : {"AAPL"}, quantity : {0, 5},
     average_price : {10}, current_price : {12}]
    \cup [symbol : {"MSFT"}, quantity : {0, 0 - 5},
          average_price : {10}, current_price : {12}]

UpdatePositionPnl ==
    /\ \E p \in TrackedPositions :
          _position_pnl' = update_position_pnl(_position_pnl, p)
    /\ UNCHANGED <<core_vars, store_vars, sync_vars, ws_vars, call_vars, val_vars, tracker_capital,
                   realized_pnl, total_commission, _trades, _peak_equity,
                   _max_drawdown>>

\* update_from_positions(positions): update_position_pnl for each position
\* of the list in turn; the list holds one position for a symbol at most.
UpdateFromPositions ==
    /\ \E p, q \in TrackedPositions :
          \E position_list \in {<<>>, <<p>>} \cup
                                (IF p.symbol = q.symbol THEN {} ELSE {<<p, q>>}) :
             _position_pnl' =
                 IF Len(position_list) = 0 THEN _position_pnl
                 ELSE IF Len(position_list) = 1
                 THEN update_position_pnl(_position_pnl, position_list[1])
                 ELSE update_position_pnl(
                          update_position_pnl(_position_pnl, position_list[1]),
                          position_list[2])
    /\ UNCHANGED <<core_vars, store_vars, sync_vars, ws_vars, call_vars, val_vars, tracker_capital,
                   realized_pnl, total_commission, _trades, _peak_equity,
                   _max_drawdown>>

\* A wrong gross P&L: every trade is taken as long.
trade_pnl_long_only(side, entry_price, exit_price, quantity) ==
    (exit_price - entry_price) * quantity

\* record_trade, lines 196-200: the gross P&L of a trade.
trade_pnl(side, entry_price, exit_price, quantity) ==
    IF side = "long" THEN (exit_price - entry_price) * quantity
    ELSE (entry_price - exit_price) * quantity

\* The trades record_trade is called with (the times and the percentage of
\* the record are left out).
Trades ==
    [symbol : {"AAPL"}, entry_price : {10}, exit_price : {8, 12},
     quantity : {5}, side : {"long", "short"}, commission : {0, 10}]

\* a < b for two fractions with positive denominators
RatLess(a, b) == a[1] * b[2] < b[1] * a[2]

\* record_trade(...), lines 169-256, after the commission of the call has
\* been added to total_commission `extra` times before (record_fill adds it
\* once before it calls record_trade).  The daily summary and the equity
\* curve are left out.
record_trade(t, extra) ==
    LET pnl == trade_pnl(t.side, t.entry_price, t.exit_price, t.quantity)
        net_pnl == pnl - t.commission
        realized == realized_pnl + net_pnl
        current_equity ==
            get_total_equity(tracker_capital, realized, _position_pnl)
        peak == IF current_equity > _peak_equity THEN current_equity
                ELSE _peak_equity
        drawdown == IF peak > 0 THEN drawdown_pct(peak, current_equity)
                    ELSE <<0, 1>>
    IN  /\ Len(_trades) < MaxTrades
        /\ realized_pnl' = realized
        /\ total_commission' = total_commission + extra + t.commission
        /\ _trades' = Append(_trades,
               [symbol |-> t.symbol, entry_price |-> t.entry_price,
                exit_price |-> t.exit_price, quantity |-> t.quantity,
                side |-> t.side, pnl |-> pnl, commission |-> t.commission,
                net_pnl |-> net_pnl])
        /\ _peak_equity' = peak
        /\ _max_drawdown' = IF RatLess(_max_drawdown, drawdown) THEN drawdown
                            ELSE _max_drawdown
        /\ UNCHANGED <<core_vars, store_vars, sync_vars, ws_vars, call_vars, val_vars, tracker_capital,
                       _position_pnl>>

RecordTrade == \E t \in Trades : record_trade(t, 0)

\* The fills record_fill is called with.
TrackedFills ==
    [symbol : {"AAPL"}, side : {"buy", "sell"}, price : {8, 12},
     quantity : {5}, commission : {0, 10}]

\* record_fill(fill, is_entry, entry_price), lines 258-287: the commission is
\* added; an exit with an entry price is recorded as a trade, long when the
\* fill sells.
RecordFill ==
    \E fill \in TrackedFills, is_entry \in BOOLEAN, entry_price \in {None, 10} :
       /\ fill.commission = 0 \/ total_commission < MaxFills * 10
       /\ IF ~is_entry /\ entry_price # None
          THEN record_trade(
                   [symbol |-> fill.symbol, entry_price |-> entry_price,
                    exit_price |-> fill.price, quantity |-> fill.quantity,
                    side |-> IF fill.side = "sell" THEN "long" ELSE "short",
                    commission |-> fill.commission],
                   fill.commission)
          ELSE /\ total_commission' = total_commission + fill.commission
               /\ UNCHANGED <<core_vars, store_vars, sync_vars, ws_vars, call_vars, val_vars, tracker_capital,
                              realized_pnl, _position_pnl, _trades,
                              _peak_equity, _max_drawdown>>

\* The number of trades of a list whose net P&L satisfies a test.
Winning(trades) == Cardinality({i \in DOMAIN trades : trades[i].net_pnl > 0})
Losing(trades) == Cardinality({i \in DOMAIN trades : trades[i].net_pnl < 0})

\* get_performance_summary(), lines 363-405: the totals and the trade counts
\* of the dict it returns; with no trade recorded the dict holds the totals
\* and total_trades only.
get_performance_summary ==
    LET totals ==
            [total_pnl |-> get_total_pnl(realized_pnl, _position_pnl),
             realized_pnl |-> realized_pnl,
             unrealized_pnl |-> get_unrealized_pnl(_position_pnl, 1),
             total_trades |-> Len(_trades)]
    IN  IF Len(_trades) = 0 THEN totals
        ELSE [k \in DOMAIN totals \cup
                       {"winning_trades", "losing_trades", "equity"} |->
                 IF k = "winning_trades" THEN Winning(_trades)
                 ELSE IF k = "losing_trades" THEN Losing(_trades)
                 ELSE IF k = "equity"
                 THEN get_total_equity(tracker_capital, realized_pnl,
                                       _position_pnl)
                 ELSE totals[k]]

-----------------------------------------------------------------------------
(* data/streaming.py: ZerodhaWebSocket, built without an event bus *)

Tokens == {1, 2}
Modes == {"ltp", "quote", "full"}

\* The token lists subscribe and unsubscribe are called with.
TokenLists == {<<1>>, <<2>>, <<1, 2>>, <<2, 1>>}

\* The elements of a list.
Elems(list) == {list[i] : i \in DOMAIN list}

\* [t for t in a if t not in b]
RECURSIVE Without(_, _)
Without(a, b) ==
    IF a = <<>> THEN <<>>
    ELSE (IF Head(a) \in b THEN <<>> ELSE <<Head(a)>>) \o Without(Tail(a), b)

\* self._ticker.subscribe(tokens) followed by self._ticker.set_mode(mode,
\* tokens): on an open connection the feed streams the tokens in the mode; on
\* a closed one nothing reaches the feed.
ticker_subscribe(streamed, tokens, mode, open) ==
    IF open
    THEN [t \in DOMAIN streamed \cup Elems(tokens) |->
             IF t \in Elems(tokens) THEN mode ELSE streamed[t]]
    ELSE streamed

\* self._ticker.unsubscribe(tokens)
ticker_unsubscribe(streamed, tokens, open) ==
    IF open
    THEN [t \in DOMAIN streamed \ Elems(tokens) |-> streamed[t]]
    ELSE streamed

\* subscribe or unsubscribe has been called while the connection was lost
touched(phase) == IF phase = "fresh" THEN "fresh" ELSE "touched"

\* connect(): _get_ticker creates the KiteTicker; the connection is made in
\* the ticker's thread and reported by _on_connect.
WsConnect ==
    /\ ~_ticker
    /\ _ticker' = TRUE
    /\ UNCHANGED <<core_vars, store_vars, sync_vars, pnl_vars, call_vars, val_vars, _connected,
                   _subscribed_tokens, _subscription_mode,
                   ticker_subscriptions, held_before, sub_phase>>

\* subscribe(tokens, mode), lines 146-173
WsSubscribe(tokens, mode) ==
    /\ IF ~_ticker
       THEN UNCHANGED <<_subscribed_tokens, _subscription_mode,
                        ticker_subscriptions, sub_phase>>
       ELSE /\ _subscribed_tokens' =
                   _subscribed_tokens
                       \o Without(tokens, Elems(_subscribed_tokens))
            /\ _subscription_mode' = mode
            /\ ticker_subscriptions' =
                   ticker_subscribe(ticker_subscriptions, tokens, mode,
                                    _connected)
            /\ sub_phase' = IF _connected THEN sub_phase ELSE touched(sub_phase)
    /\ UNCHANGED <<core_vars, store_vars, sync_vars, pnl_vars, call_vars, val_vars, _ticker,
                   _connected, held_before>>

\* unsubscribe(tokens), lines 175-189
WsUnsubscribe(tokens) ==
    /\ IF ~_ticker
       THEN UNCHANGED <<_subscribed_tokens, ticker_subscriptions, sub_phase>>
       ELSE /\ ticker_subscriptions' =
                   ticker_unsubscribe(ticker_subscriptions, tokens, _connected)
            /\ _subscribed_tokens' = Without(_subscribed_tokens, Elems(tokens))
            /\ sub_phase' = IF _connected THEN sub_phase ELSE touched(sub_phase)
    /\ UNCHANGED <<core_vars, store_vars, sync_vars, pnl_vars, call_vars, val_vars, _ticker,
                   _connected, _subscription_mode, held_before>>

\* resubscribe(), lines 191-195: subscribe(self._subscribed_tokens,
\* self._subscription_mode) on the connection just made; the saved list
\* and the saved mode stay as they are.
resubscribe(streamed, tokens, mode) ==
    IF tokens # <<>> THEN ticker_subscribe(streamed, tokens, mode, TRUE)
    ELSE streamed

\* _on_connect(ws, response), lines 237-258: the ticker reports a connection,
\* the first one or one made after a loss.
OnConnect ==
    /\ _ticker
    /\ ~_connected
    /\ _connected' = TRUE
    /\ ticker_subscriptions' =
           resubscribe(ticker_subscriptions, _subscribed_tokens,
                       _subscription_mode)
    /\ sub_phase' = "fresh"
    /\ UNCHANGED <<core_vars, store_vars, sync_vars, pnl_vars, call_vars, val_vars, _ticker,
                   _subscribed_tokens, _subscription_mode, held_before>>

\* _on_close(ws, code, reason), lines 260-281: the connection is lost and
\* with it what the feed streamed on it.
OnClose ==
    /\ _connected
    /\ _connected' = FALSE
    /\ held_before' = ticker_subscriptions
    /\ ticker_subscriptions' = EmptyMap
    /\ sub_phase' = "clean"
    /\ UNCHANGED <<core_vars, store_vars, sync_vars, pnl_vars, call_vars, val_vars, _ticker,
                   _subscribed_tokens, _subscription_mode>>

-----------------------------------------------------------------------------
(* order_manager.py: process_fill called from several threads *)

\* The threads that call process_fill: the dispatcher thread of the bus and
\* a background thread.
Callers == {1, 2}

Idle == [pc |-> "idle", fill |-> None, loaded |-> 0]

\* The fills the threads call process_fill with: one lot at the market price.
ConcurrentFills ==
    [order_id : OrderIds, quantity : {LotSize}, price : {MarketPrice}]

\* Everything but the OrderManager's orders, fills and stats, the history of
\* the fills and the callers.
beside_fill == <<enable_validation, oms_orders, broker_vars, risk_vars,
                 bus_vars, engine_vars, store_vars, sync_vars, pnl_vars,
                 ws_vars, val_vars, last>>

\* process_fill, lines 272-273: self.fills.append(fill), and the load of
\* self.stats["total_fills"] += 1.
FillBegin(c) ==
    /\ fill_callers[c].pc = "idle"
    /\ Len(oms_fills) < MaxFills
    /\ \E fill \in ConcurrentFills :
          /\ oms_fills' = Append(oms_fills, fill)
          /\ fill_callers' = [fill_callers EXCEPT ![c] =
                 [pc |-> "store_total", fill |-> fill,
                  loaded |-> stats.total_fills]]
    /\ UNCHANGED <<orders, pending_orders, stats, applied, beside_fill>>

\* line 273, the store of self.stats["total_fills"] += 1, and the test of
\* line 276: process_fill ends here for an order that is not tracked.
FillStoreTotal(c) ==
    LET me == fill_callers[c]
    IN  /\ me.pc = "store_total"
        /\ stats' = [stats EXCEPT !.total_fills = me.loaded + 1]
        /\ fill_callers' = [fill_callers EXCEPT ![c] =
               IF me.fill.order_id \in oms_orders
               THEN [me EXCEPT !.pc = "load_filled"]
               ELSE Idle]
        /\ UNCHANGED <<orders, oms_fills, pending_orders, applied, beside_fill>>

\* line 280, the load of order.filled_quantity += fill.quantity
FillLoadFilled(c) ==
    LET me == fill_callers[c]
    IN  /\ me.pc = "load_filled"
        /\ fill_callers' = [fill_callers EXCEPT ![c] =
               [me EXCEPT !.pc = "store_filled",
                          !.loaded = orders[me.fill.order_id].filled_quantity]]
        /\ UNCHANGED <<orders, oms_fills, pending_orders, stats, applied,
                       beside_fill>>

\* line 280, the store of order.filled_quantity += fill.quantity
FillStoreFilled(c) ==
    LET me == fill_callers[c]
    IN  /\ me.pc = "store_filled"
        /\ orders' = [orders EXCEPT ![me.fill.order_id].filled_quantity =
                          me.loaded + me.fill.quantity]
        /\ applied' = Applied(applied, me.fill.order_id, <<me.fill>>, TRUE)
        /\ fill_callers' = [fill_callers EXCEPT ![c] =
               [me EXCEPT !.pc = "finish"]]
        /\ UNCHANGED <<oms_fills, pending_orders, stats, beside_fill>>

\* lines 282-306: the average fill price, the status, the pending list and
\* orders_filled, read and written from the values found now (taken as one
\* step).
FillFinish(c) ==
    LET me == fill_callers[c]
        id == me.fill.order_id
        o == orders[id]
        avg == IF o.filled_quantity > 0
               THEN vwap_update(o.average_fill_price, o.filled_quantity,
                                me.fill.quantity, me.fill.price)
               ELSE o.average_fill_price
    IN  /\ me.pc = "finish"
        /\ IF o.filled_quantity >= o.quantity
           THEN /\ orders' = [orders EXCEPT ![id] =
                       [o EXCEPT !.average_fill_price = avg,
                                 !.status = "filled"]]
                /\ pending_orders' = IF InSeq(pending_orders, id)
                                     THEN Remove(pending_orders, id)
                                     ELSE pending_orders
                /\ stats' = Bump(stats, "orders_filled")
           ELSE /\ orders' = [orders EXCEPT ![id] =
                       [o EXCEPT !.average_fill_price = avg,
                                 !.status = "partially_filled"]]
                /\ UNCHANGED <<pending_orders, stats>>
        /\ fill_callers' = [fill_callers EXCEPT ![c] = Idle]
        /\ UNCHANGED <<oms_fills, applied, beside_fill>>

-----------------------------------------------------------------------------
(* Initial states: the objects as their constructors leave them *)

InitOrders ==
    /\ orders = EmptyMap
    /\ oms_orders = {}
    /\ oms_fills = <<>>
    /\ pending_orders = <<>>
    /\ stats = [orders_submitted |-> 0, orders_filled |-> 0, orders_cancelled |-> 0,
                orders_rejected |-> 0, total_fills |-> 0]
    /\ applied = [id \in OrderIds |-> [pq |-> 0, q |-> 0, oms_pq |-> 0, oms_q |-> 0]]

InitBroker ==
    /\ connected = FALSE
    /\ cash = initial_capital
    /\ positions = EmptyMap
    /\ broker_orders = {}
    /\ current_prices = EmptyMap

InitRisk ==
    /\ kill_switch_active = FALSE
    /\ violations = 0
    /\ daily_pnl = 0
    /\ peak_equity = 0
    /\ current_drawdown = <<0, 1>>
    /\ order_timestamps = <<>>
    /\ now = 0
    /\ check_result = [is_safe |-> TRUE, violations |-> <<>>]
    /\ risk_calls = [check_order |-> 0, switch |-> "none"]

InitBus ==
    /\ event_queue = <<>>
    /\ running = FALSE
    /\ stop_event = FALSE
    /\ threads = <<>>
    /\ event_count = 0
    /\ error_count = 0
    /\ stopper = "idle"
    /\ bus_log = [accepted |-> 0, cleared |-> 0]

\* LiveExecutionEngine.__init__
InitEngine ==
    /\ state = "created"
    /\ control = NoCall
    /\ engine_stop_event = FALSE
    /\ signals_received = 0
    /\ strategy_positions = EmptyMap
    /\ workers = 0
    /\ risk_pause = FALSE
    /\ heartbeat = <<>>
    /\ engine_log = Called("__init__", "created", "none")

\* StateStore._init_database on a new file: both tables are empty.
InitStore ==
    /\ engine_states = <<>>
    /\ crash_markers = <<>>

\* PositionSynchronizer.__init__ with its defaults, before any call.
InitSynchronizer ==
    /\ local_positions = EmptyMap
    /\ local_prices = EmptyMap
    /\ broker_dict = EmptyMap
    /\ auto_reconcile = TRUE
    /\ sync_count = 0
    /\ reconciliation_history = <<>>
    /\ get_positions_fails = FALSE

InitCore ==
    /\ InitOrders /\ InitBroker /\ InitRisk /\ InitBus /\ InitEngine
    /\ last = [op |-> "init", order |-> None, ret |-> None, placed |-> FALSE,
               callbacks |-> <<>>]

\* LivePnLTracker.__init__(initial_capital)
InitTracker(capital) ==
    /\ tracker_capital = capital
    /\ realized_pnl = 0
    /\ total_commission = 0
    /\ _position_pnl = EmptyMap
    /\ _trades = <<>>
    /\ _peak_equity = capital
    /\ _max_drawdown = <<0, 1>>

\* ZerodhaWebSocket.__init__
InitWebSocket ==
    /\ _ticker = FALSE
    /\ _connected = FALSE
    /\ _subscribed_tokens = <<>>
    /\ _subscription_mode = "quote"
    /\ ticker_subscriptions = EmptyMap
    /\ held_before = EmptyMap
    /\ sub_phase = "fresh"

\* No call of process_fill is in progress.
InitCallers == fill_callers = [c \in Callers |-> Idle]

\* No order has been handed to the validator.
InitValidate ==
    /\ candidate = NewOrder([symbol |-> "AAPL", side |-> "buy",
                             order_type |-> "market", quantity |-> 5,
                             price |-> None, stop_price |-> None])
    /\ verdict = <<>>

InitObjects ==
    /\ InitCore
    /\ InitStore
    /\ InitSynchronizer
    /\ InitTracker(0)
    /\ InitWebSocket
    /\ InitCallers
    /\ InitValidate

\* The OrderManager is built with validation on or off, the RiskManager with
\* enable_kill_switch at its default.
Init ==
    /\ InitObjects
    /\ enable_validation \in BOOLEAN
    /\ enable_kill_switch = TRUE
    /\ dry_run = FALSE

\* The order flow: callers of the OrderManager and of the PaperBroker.
Next ==
    \/ SubmitOrder
    \/ CancelOrder
    \/ ProcessFill
    \/ Connect
    \/ UpdatePrices

Spec == Init /\ [][Next]_vars

\* The order flow under the kill switch: submit_order with the RiskManager's
\* kill switch being triggered and deactivated.
NextKill ==
    \/ SubmitOrder
    \/ Connect
    \/ UpdatePrices
    \/ TriggerKillSwitch
    \/ DeactivateKillSwitch

SpecKill == Init /\ [][NextKill]_vars

\* The RiskManager alone, built with the kill switch enabled or disabled.
InitRiskManager ==
    /\ InitObjects
    /\ enable_validation = TRUE
    /\ enable_kill_switch \in BOOLEAN
    /\ dry_run = FALSE

NextRisk ==
    \/ CheckOrder
    \/ UpdateDailyPnl
    \/ ResetDailyMetrics
    \/ TriggerKillSwitch
    \/ DeactivateKillSwitch
    \/ Tick

SpecRisk == InitRiskManager /\ [][NextRisk]_vars

\* The EventBus, its publishers and its dispatcher threads.
NextBus ==
    \/ Publish
    \/ ClearQueue
    \/ Start
    \/ Stop
    \/ StopReturn
    \/ \E t \in 1..Len(threads) : LoopTest(t)
    \/ \E t \in 1..Len(threads) : Get(t)
    \/ \E t \in 1..Len(threads) : Dispatch(t)
    \/ \E t \in 1..Len(threads) : HandlerReturn(t)

InitEventBus ==
    /\ InitObjects
    /\ enable_validation = TRUE
    /\ enable_kill_switch = TRUE
    /\ dry_run = FALSE

SpecBus == InitEventBus /\ [][NextBus]_vars

\* The LiveExecutionEngine with its bus, OrderManager and PaperBroker: the
\* callers of start, stop, pause and resume, the publishers of events, the
\* price feed of the paper broker and the dispatcher threads of the bus.
NextEngine ==
    \/ EngineStart
    \/ EngineStartComplete
    \/ EngineStop
    \/ EngineStopBus
    \/ EngineStopComplete
    \/ EnginePause
    \/ EngineResume
    \/ EnginePublish
    \/ UpdatePrices
    \/ \E t \in 1..Len(threads) : LoopTest(t)
    \/ \E t \in 1..Len(threads) : Get(t)
    \/ \E t \in 1..Len(threads) : EngineHandle(t)

\* The engine is built with dry_run on or off.
InitLiveEngine ==
    /\ InitObjects
    /\ enable_validation = TRUE
    /\ enable_kill_switch = TRUE
    /\ dry_run \in BOOLEAN

SpecEngine == InitLiveEngine /\ [][NextEngine]_vars

\* The LiveExecutionEngine with its bus, fed by the market data feed and the
\* stream: no signal is published, so no order is created.
NextEngineData ==
    \/ EngineStart
    \/ EngineStartComplete
    \/ EngineStop
    \/ EngineStopBus
    \/ EngineStopComplete
    \/ EnginePause
    \/ EngineResume
    \/ StreamPublish
    \/ \E t \in 1..Len(threads) : LoopTest(t)
    \/ \E t \in 1..Len(threads) : Get(t)
    \/ \E t \in 1..Len(threads) : EngineHandle(t)

SpecEngineData == InitLiveEngine /\ [][NextEngineData]_vars

\* The LiveExecutionEngine with its bus and its heartbeat threads, and a
\* broker whose connection is lost and whose connect() may fail.
NextHeartbeat ==
    \/ EngineStart
    \/ EngineStartComplete
    \/ EngineStop
    \/ EngineStopBus
    \/ EngineStopComplete
    \/ EnginePause
    \/ EngineResume
    \/ Disconnect
    \/ \E h \in 1..Len(heartbeat) : HeartbeatTest(h)
    \/ \E h \in 1..Len(heartbeat) : HeartbeatBeat(h)
    \/ \E h \in 1..Len(heartbeat) : HeartbeatWait(h)
    \/ \E h \in 1..Len(heartbeat) : ReconnectAttempt(h)
    \/ \E h \in 1..Len(heartbeat) : HandleDisconnectStop(h)
    \/ \E t \in 1..Len(threads) : LoopTest(t)
    \/ \E t \in 1..Len(threads) : Get(t)
    \/ \E t \in 1..Len(threads) : EngineHandle(t)

InitHeartbeat ==
    /\ InitObjects
    /\ enable_validation = TRUE
    /\ enable_kill_switch = TRUE
    /\ dry_run = FALSE

SpecHeartbeat == InitHeartbeat /\ [][NextHeartbeat]_vars

\* The LiveExecutionEngine and the dispatcher threads of its bus, with no
\* other publisher than the engine.  A dispatcher thread that can take a
\* step takes it, and a call of start or stop in progress runs on; whether
\* start or stop is called at all is up to the caller.
NextLifecycle ==
    \/ EngineStart
    \/ EngineStartComplete
    \/ EngineStop
    \/ EngineStopBus
    \/ EngineStopComplete
    \/ \E t \in 1..Len(threads) : LoopTest(t)
    \/ \E t \in 1..Len(threads) : Get(t)
    \/ \E t \in 1..Len(threads) : EngineHandle(t)

FairLifecycle ==
    /\ WF_vars(EngineStartComplete)
    /\ WF_vars(EngineStopBus)
    /\ WF_vars(EngineStopComplete)
    /\ WF_vars(\E t \in 1..Len(threads) : LoopTest(t))
    /\ WF_vars(\E t \in 1..Len(threads) : Get(t))
    /\ WF_vars(\E t \in 1..Len(threads) : EngineHandle(t))

SpecLifecycle == InitHeartbeat /\ [][NextLifecycle]_vars /\ FairLifecycle

\* The LiveExecutionEngine with its bus, built next to a StateStore in which
\* crash markers are written and marked recovered.
NextRecovery ==
    \/ MarkCrash
    \/ MarkCrashRecovered
    \/ EngineStart
    \/ EngineStartComplete
    \/ EngineStop
    \/ EngineStopBus
    \/ EngineStopComplete
    \/ \E t \in 1..Len(threads) : LoopTest(t)
    \/ \E t \in 1..Len(threads) : Get(t)
    \/ \E t \in 1..Len(threads) : EngineHandle(t)

SpecRecovery == InitHeartbeat /\ [][NextRecovery]_vars

\* The StateStore alone: snapshots are saved, crash markers written and
\* marked recovered.
NextStore ==
    \/ \E s \in Snapshots : SaveState(s)
    \/ MarkCrash
    \/ MarkCrashRecovered

SpecStore == InitHeartbeat /\ [][NextStore]_vars

\* The dicts sync_positions is called with: a quantity, or no entry, for
\* each symbol.
PositionDicts ==
    {d \in UNION {[S -> {0, Shares(3), Shares(5), Shares(5) + 1, Shares(7),
                         Shares(10)}] : S \in SUBSET {"AAPL", "MSFT", "TSLA"}} :
        /\ "AAPL" \in DOMAIN d => d["AAPL"] \in {0, Shares(10)}
        /\ "MSFT" \in DOMAIN d =>
               d["MSFT"] \in {0, Shares(3), Shares(5), Shares(5) + 1}
        /\ "TSLA" \in DOMAIN d => d["TSLA"] \in {0, Shares(7)}}

\* The PositionSynchronizer alone, built with auto_reconcile on or off, with
\* a broker that reports any of the dicts, called with any of the dicts and
\* with no local prices (None or an empty dict) or with one price for every
\* local symbol.
SyncCalls ==
    /\ InitCore
    /\ InitStore
    /\ enable_validation = TRUE
    /\ enable_kill_switch = TRUE
    /\ dry_run = FALSE
    /\ local_positions \in PositionDicts
    /\ broker_dict \in PositionDicts
    /\ local_prices \in {EmptyMap} \cup
           {[s \in DOMAIN local_positions |-> p] :
                p \in {BrokerPrice, BrokerPrice + 1, BrokerPrice + 2}}
    /\ auto_reconcile \in BOOLEAN
    /\ sync_count = 0
    /\ reconciliation_history = <<>>
    /\ InitTracker(0)
    /\ InitWebSocket
    /\ InitCallers
    /\ InitValidate

\* The broker answers every get_positions call.
InitSync == SyncCalls /\ get_positions_fails = FALSE

\* The broker's get_positions call raises.
InitSyncFailure == SyncCalls /\ get_positions_fails = TRUE

\* The LivePnLTracker alone, built with no capital or with a capital of 1000.
InitPnl ==
    /\ InitCore
    /\ InitStore
    /\ InitSynchronizer
    /\ enable_validation = TRUE
    /\ enable_kill_switch = TRUE
    /\ dry_run = FALSE
    /\ \E capital \in {0, 1000} : InitTracker(capital)
    /\ InitWebSocket
    /\ InitCallers
    /\ InitValidate

NextPnl ==
    \/ UpdatePositionPnl
    \/ UpdateFromPositions
    \/ RecordTrade
    \/ RecordFill

SpecPnl == InitPnl /\ [][NextPnl]_vars

\* The OrderManager and the paper broker with process_fill called from two
\* threads at a time; the broker knows no price, so that it fills no order
\* itself.
NextConcurrent ==
    \/ Connect
    \/ SubmitOrder
    \/ \E c \in Callers : FillBegin(c)
    \/ \E c \in Callers : FillStoreTotal(c)
    \/ \E c \in Callers : FillLoadFilled(c)
    \/ \E c \in Callers : FillStoreFilled(c)
    \/ \E c \in Callers : FillFinish(c)

SpecConcurrent == Init /\ [][NextConcurrent]_vars

\* The engine's position sync beside the order flow: orders are submitted
\* to the paper broker, which opens and closes positions, and the engine
\* synchronizes the strategy's positions with the broker's.
NextPositionSync ==
    \/ Connect
    \/ SubmitOrder
    \/ UpdatePrices
    \/ PositionSync

SpecPositionSync == Init /\ [][NextPositionSync]_vars

\* The order flow of an engine that is stopped: orders are submitted and
\* cancelled through the OrderManager, and stop() cancels the orders that
\* are open at the broker.
NextStopOrders ==
    \/ Connect
    \/ SubmitOrder
    \/ CancelOrder
    \/ UpdatePrices
    \/ EngineStop
    \/ EngineStopBus
    \/ EngineStopComplete

SpecStopOrders == Init /\ [][NextStopOrders]_vars

\* The OrderValidator alone, called with one order.
InitValidator ==
    /\ InitCore
    /\ InitStore
    /\ InitSynchronizer
    /\ InitTracker(0)
    /\ InitWebSocket
    /\ InitCallers
    /\ enable_validation = TRUE
    /\ enable_kill_switch = TRUE
    /\ dry_run = FALSE
    /\ candidate \in {NewOrder(inp) : inp \in ValidatorInputs}
    /\ verdict = <<>>

NextValidator == Validate

SpecValidator == InitValidator /\ [][NextValidator]_vars

\* The market data socket alone.
InitStreaming ==
    /\ InitObjects
    /\ enable_validation = TRUE
    /\ enable_kill_switch = TRUE
    /\ dry_run = FALSE

NextStreaming ==
    \/ WsConnect
    \/ \E tokens \in TokenLists, mode \in Modes : WsSubscribe(tokens, mode)
    \/ \E tokens \in TokenLists : WsUnsubscribe(tokens)
    \/ OnConnect
    \/ OnClose

SpecStreaming == InitStreaming /\ [][NextStreaming]_vars

NextSync == SyncPositions

SpecSync == InitSync /\ [][NextSync]_vars

SpecSyncFailure == InitSyncFailure /\ [][NextSync]_vars

-----------------------------------------------------------------------------
(* Observing the calls *)

\* A step in which submit_order ran: it counts the order as submitted or as
\* rejected, exactly once.
SubmitStep ==
    stats'.orders_submitted + stats'.orders_rejected =
        stats.orders_submitted + stats.orders_rejected + 1

\* PaperBroker.place_order / _execute_market_order reject order o in the
\* current broker state: the call returns without raising and leaves the
\* order Rejected (order fails validate_order, no price for the symbol, or a
\* buy whose cost plus commission exceeds the cash).
broker_rejects(o) ==
    LET r == place_order(o, 0)
    IN  ~r.raised /\ r.order.status = "rejected"

Terminal == {"filled", "cancelled", "rejected"}

-----------------------------------------------------------------------------
(* Order flow: kill switch, validator and broker rejections (SpecKill) *)

\* C1: while the kill switch is active (latched and not yet deactivated),
\* every submit_order returns no identity and does not call the broker's
\* place_order.
C1_KillSwitchBlocksSubmit ==
    [][(SubmitStep /\ kill_switch_active) =>
           (last'.ret = None /\ ~last'.placed)]_vars

\* C6: when the validator rejects the order given to submit_order, the order
\* is marked Rejected and recorded, orders_rejected grows by one,
\* orders_submitted and the pending set are unchanged, order_rejected is
\* fired once with a non-empty reason, no identity is returned and
\* place_order is not called: the broker's orders, positions and cash are
\* unchanged.
C6_ValidatorRejection ==
    [][\A id \in OrderIds :
          (/\ SubmitStep
           /\ last'.order = id
           /\ enable_validation
           /\ ~validate(orders'[id])[1])
          =>
          (/\ orders'[id].status = "rejected"
           /\ id \in oms_orders'
           /\ stats'.orders_rejected = stats.orders_rejected + 1
           /\ stats'.orders_submitted = stats.orders_submitted
           /\ pending_orders' = pending_orders
           /\ Len(last'.callbacks) = 1
           /\ last'.callbacks[1][1] = "order_rejected"
           /\ last'.callbacks[1][2] = validate(orders'[id])[2]
           /\ last'.callbacks[1][2] # ""
           /\ last'.ret = None
           /\ ~last'.placed
           /\ broker_orders' = broker_orders
           /\ positions' = positions
           /\ cash' = cash)]_vars

\* C6 witness: the last submit_order was given a buy of quantity 0 with
\* validation on, and the order is recorded as Rejected.
C6_Witness ==
    /\ enable_validation
    /\ last.op = "submit_order"
    /\ last.order \in oms_orders
    /\ orders[last.order].quantity = 0
    /\ orders[last.order].status = "rejected"
    /\ stats.orders_rejected >= 1

\* C7: when the paper broker rejects the order placed by submit_order, the
\* OrderManager marks it Rejected, counts it in orders_rejected and not in
\* orders_submitted, fires order_rejected, keeps it out of the pending set and
\* returns no identity.
C7_BrokerRejection ==
    [][\A id \in OrderIds :
          (/\ SubmitStep
           /\ last'.order = id
           /\ last'.placed
           /\ broker_rejects(orders'[id]))
          =>
          (/\ orders'[id].status = "rejected"
           /\ stats'.orders_rejected = stats.orders_rejected + 1
           /\ stats'.orders_submitted = stats.orders_submitted
           /\ Len(last'.callbacks) = 1
           /\ last'.callbacks[1][1] = "order_rejected"
           /\ pending_orders' = pending_orders
           /\ last'.ret = None)]_vars

\* C8: an order whose notional (quantity times its explicit price) exceeds
\* max_position_size never reaches the broker's place_order.
C8_OversizedOrderNotPlaced ==
    [][\A id \in OrderIds :
          (/\ SubmitStep
           /\ last'.order = id
           /\ orders'[id].price # None
           /\ orders'[id].quantity * orders'[id].price > max_position_size)
          => ~last'.placed]_vars

-----------------------------------------------------------------------------
(* Order flow: fills and cancellations (Spec) *)

\* C2: every order tracked by the OrderManager has
\* 0 <= filled_quantity <= quantity.
C2_FilledWithinQuantity ==
    \A id \in oms_orders :
        /\ 0 <= orders[id].filled_quantity
        /\ orders[id].filled_quantity <= orders[id].quantity

\* C3: for every tracked order (of positive quantity, as an Order is meant to
\* be), status = Filled exactly when filled_quantity = quantity, and a
\* Cancelled order never becomes Filled.
C3_FilledIffComplete ==
    /\ [](\A id \in oms_orders :
             orders[id].quantity > 0 =>
                 ((orders[id].status = "filled") <=>
                      (orders[id].filled_quantity = orders[id].quantity)))
    /\ [][\A id \in oms_orders :
             orders[id].status = "cancelled" => orders'[id].status # "filled"]_vars

\* C4: once a tracked order is Filled, Cancelled or Rejected, no later
\* submit_order, cancel_order or process_fill changes its status or its filled
\* quantity.
C4_TerminalIsFinal ==
    [][\A id \in oms_orders :
          orders[id].status \in Terminal =>
              /\ orders'[id].status = orders[id].status
              /\ orders'[id].filled_quantity = orders[id].filled_quantity]_vars

-----------------------------------------------------------------------------
(* Risk manager: the kill switch (SpecRisk) *)

\* A step in which check_order ran.
CheckStep == risk_calls'.check_order = risk_calls.check_order + 1

\* What check_order returns while the kill switch is active.
KillSwitchResult ==
    [is_safe |-> FALSE, violations |-> <<RiskViolation("critical", "kill_switch")>>]

HasRule(vs, rule) == \E k \in 1..Len(vs) : vs[k][2] = rule

\* C9 as stated: from a trigger_kill_switch call until the next
\* deactivate_kill_switch, every check_order returns not-safe with one
\* Critical kill_switch violation.
C9_TriggerAlwaysLatches ==
    [][(CheckStep /\ risk_calls.switch = "trigger_kill_switch") =>
           check_result' = KillSwitchResult]_vars

\* C9: on a RiskManager built with the kill switch enabled, from a
\* trigger_kill_switch call until the next deactivate_kill_switch every
\* check_order returns not-safe with one Critical kill_switch violation,
\* whatever the order, account and positions; any other check_order (before
\* a trigger, after a deactivate, kill switch disabled) reports no
\* kill_switch violation and is safe exactly when no violation it found is
\* Critical.
C9_KillSwitchLatches ==
    [][CheckStep =>
           IF enable_kill_switch /\ risk_calls.switch = "trigger_kill_switch"
           THEN check_result' = KillSwitchResult
           ELSE /\ ~HasRule(check_result'.violations, "kill_switch")
                /\ check_result'.is_safe <=> ~HasCritical(check_result'.violations)
                /\ Len(check_result'.violations) = 0 => check_result'.is_safe]_vars

\* C9 witness: the kill switch was triggered, is still latched, and a
\* check_order made since returned the kill_switch verdict.
C9_Witness ==
    /\ enable_kill_switch
    /\ kill_switch_active
    /\ risk_calls.switch = "trigger_kill_switch"
    /\ risk_calls.check_order >= 1
    /\ check_result = KillSwitchResult

-----------------------------------------------------------------------------
(* Event bus: priority order (SpecBus) *)

\* C10: whenever a dispatcher thread takes an event from the queue, no event
\* in the queue at that moment has a smaller priority value than the event
\* taken.
C10_DequeueByPriority ==
    [][\A t \in 1..Len(threads) :
          (threads[t].pc = "get" /\ threads'[t].pc = "dispatch") =>
              \A k \in 1..Len(event_queue) :
                  threads'[t].event.priority <= event_queue[k].priority]_vars

\* C10 witness: a dispatcher thread holds an event it took from the queue
\* while events of two larger priority values are still queued.
C10_Witness ==
    \E t \in 1..Len(threads) :
        /\ threads[t].pc = "dispatch"
        /\ Len(event_queue) >= 2
        /\ threads[t].event.priority < event_queue[1].priority
        /\ event_queue[1].priority < event_queue[2].priority

-----------------------------------------------------------------------------
(* Event bus: publishing, stopping, dispatching (SpecBus) *)

\* C11: a publish on a bus whose queue already holds max_queue_size events
\* raises Full to the caller and changes nothing: the queue is as it was and
\* the event is not among the accepted ones; and every event for which
\* publish returned normally is accounted for: it is still queued, or a
\* dispatcher thread took it from the queue (it is being dispatched or has
\* been counted as dispatched), or clear_queue removed it.  (Stated on the
\* state every step leads to; the initial state has no event at all.)
C11_FullQueueRaisesAndNoSilentDrop ==
    [][/\ bus_log'.accepted =
              Len(event_queue') + InFlight(threads') + event_count'
                  + bus_log'.cleared
       /\ \A event \in Events :
              (Len(event_queue) >= max_queue_size /\ PublishEvent(event)) =>
                  /\ publish(event_queue, event).raised
                  /\ bus_log'.accepted = bus_log.accepted
                  /\ event_queue' = event_queue]_vars

\* C11 witness: the queue holds max_queue_size events again, after an earlier
\* accepted event was taken by a dispatcher or cleared, and a publish of any
\* event raises.
C11_Witness ==
    /\ Len(event_queue) = max_queue_size
    /\ bus_log.accepted > max_queue_size
    /\ \A event \in Events : publish(event_queue, event).raised

\* A step in which dispatcher thread t calls a handler: the first handler of
\* the event it holds, or the next handler of the list.
CallsHandler(t) ==
    /\ threads'[t].pc = "handler"
    /\ \/ threads[t].pc # "handler"
       \/ threads'[t].handler # threads[t].handler

\* C12: once stop(timeout) has returned (the dispatcher joined, or the wait
\* timed out) and until the next start, no dispatcher thread calls a
\* subscriber handler.
C12_NoHandlerAfterStop ==
    [][\A t \in 1..Len(threads) :
          CallsHandler(t) => stopper \notin {"joined", "timeout"}]_vars

\* The dispatcher threads whose loop has not ended, and those inside a
\* handler.
ActiveLoops == {t \in 1..Len(threads) : threads[t].pc # "done"}
InHandler == {t \in 1..Len(threads) : threads[t].pc = "handler"}

\* C13: for every sequence of start() and stop(timeout) calls, at most one
\* dispatcher loop is active and at most one handler is executing.
C13_SingleDispatcher ==
    /\ Cardinality(ActiveLoops) <= 1
    /\ Cardinality(InHandler) <= 1

\* C14: when a handler raises while an event is dispatched, the exception is
\* caught and counted once in the error count, the dispatcher thread does not
\* end, the next handler of the event (if any) is called, and after the last
\* handler the event is counted and the thread is back at its loop test.
C14_HandlerErrorCaught ==
    [][\A t \in 1..Len(threads) :
          HandlerEnds(t, TRUE) =>
              /\ error_count' = error_count + 1
              /\ threads'[t].pc # "done"
              /\ IF threads[t].handler < threads[t].subscribers
                 THEN /\ CallsHandler(t)
                      /\ threads'[t].handler = threads[t].handler + 1
                      /\ event_count' = event_count
                 ELSE /\ threads'[t].pc = "while"
                      /\ event_count' = event_count + 1]_vars

\* C14 witness: with one dispatcher thread, every handler of the first event
\* raised (so each was called after the one before it had raised), the event
\* was counted, and the first handler of a later event is being called.
C14_Witness ==
    /\ Len(threads) = 1
    /\ event_count = 1
    /\ error_count = NumHandlers
    /\ threads[1].pc = "handler"
    /\ threads[1].handler = 1

-----------------------------------------------------------------------------
(* Live engine: lifecycle, start and stop (SpecEngine) *)

\* The lifecycle graph: Created -> Starting -> Running <-> Paused,
\* Running / Paused -> Stopping -> Stopped, Starting -> Error.
LifecycleGraph ==
    {<<"created", "starting">>, <<"starting", "running">>,
     <<"running", "paused">>, <<"paused", "running">>,
     <<"running", "stopping">>, <<"paused", "stopping">>,
     <<"stopping", "stopped">>, <<"starting", "error">>}

\* C15: the engine state changes only along the lifecycle graph, for every
\* sequence of start, stop, pause, resume and event deliveries; in particular
\* start() is not accepted from Paused and Error is entered only from Starting.
C15_LifecycleOnly ==
    [][state' # state => <<state, state'>> \in LifecycleGraph]_vars

\* A call of stop() that found the engine Running returns in this step.
StopOnRunningReturns ==
    /\ control[1] \in {"stop", "join"}
    /\ control[2] = "running"
    /\ control' = NoCall

\* SystemStop is published in this step.
PublishesSystemStop ==
    /\ ~publish(event_queue, SystemStop).raised
    /\ event_queue' = heappush(event_queue, SystemStop)
    /\ bus_log'.accepted = bus_log.accepted + 1

C17_StartRefused ==
    [][(state \in {"running", "starting"} /\ EngineStart) =>
          /\ engine_log' = Called("start", state, "False")
          /\ UNCHANGED <<oms_vars, broker_vars, risk_vars, bus_vars, obs_vars,
                         state, control, engine_stop_event, dry_run,
                         signals_received, strategy_positions, workers>>]_vars

\* C17 witness: start() was called on a Running engine whose start launched
\* the one pair of workers, and returned False; the engine is Running.
C17_Witness ==
    /\ state = "running"
    /\ engine_log = Called("start", "running", "False")
    /\ workers = 1
    /\ Len(threads) = 1

-----------------------------------------------------------------------------
(* Live engine: event handlers (SpecEngine, SpecEngineData) *)

\* The dispatcher thread t calls the engine's handler for an event of type et.
Handles(t, et) ==
    /\ threads[t].pc = "dispatch"
    /\ threads[t].event.event_type = et
    /\ EngineHandle(t)

\* C18: a Signal delivered while the engine is not Running is dropped: no
\* Order object is created, OrderManager.submit_order and the broker's
\* place_order are not called (the order manager, the broker and the record
\* of the last submit_order call stay as they were), the signal is not
\* counted and it is gone from the bus; pause() leaves the strategy's
\* positions and the broker's as they were.
C18_SignalDroppedUnlessRunning ==
    [][/\ \A t \in 1..Len(threads) :
              (state # "running" /\ Handles(t, "signal")) =>
                  /\ engine_log' = Called("_on_signal", state, "dropped")
                  /\ threads'[t] = Looping("while")
                  /\ UNCHANGED <<oms_vars, broker_vars, obs_vars, event_queue,
                                 state, signals_received, strategy_positions>>
       /\ (state = "running" /\ EnginePause) =>
              /\ state' = "paused"
              /\ UNCHANGED <<strategy_positions, positions, workers>>]_vars

\* C18 witness: the engine, not in dry run, is Paused with a position of the
\* strategy from an earlier signal, and its handler has just dropped a signal.
C18_Witness ==
    /\ ~dry_run
    /\ state = "paused"
    /\ engine_log = Called("_on_signal", "paused", "dropped")
    /\ signals_received = 1
    /\ Cardinality(DOMAIN orders) = 1
    /\ DOMAIN strategy_positions # {}

\* C19: a Critical RiskViolation handled while the engine is Running makes
\* it Paused in the handler, before the next event is handled; every Signal
\* handled after it and before resume() is called is ignored; a violation
\* that is not Critical leaves the engine state unchanged.
C19_CriticalPausesUntilResume ==
    [][\A t \in 1..Len(threads) :
          /\ (Handles(t, "risk_violation") /\ state = "running"
                /\ threads[t].event.data.severity = "critical") =>
                  state' = "paused"
          /\ (Handles(t, "risk_violation")
                /\ threads[t].event.data.severity # "critical") =>
                  state' = state
          /\ (Handles(t, "signal") /\ risk_pause) =>
                  /\ engine_log' = Called("_on_signal", state, "dropped")
                  /\ UNCHANGED <<oms_vars, broker_vars, signals_received>>]_vars

\* C20: every MarketData event and every Tick event the bus dispatches while
\* the engine is attached is forwarded to the strategy's on_data.
C20_DataForwarded ==
    [][\A t \in 1..Len(threads) :
          (Handles(t, "market_data") \/ Handles(t, "tick")) =>
              engine_log'.ret = "on_data"]_vars


-----------------------------------------------------------------------------
(* Live engine: the heartbeat worker and reconnection (SpecHeartbeat) *)

\* A heartbeat thread comes back from the stop() that _handle_disconnect
\* called.
StopReturnsTo(h) ==
    heartbeat[h].pc # "returned" /\ heartbeat'[h].pc = "returned"

\* C21: a heartbeat thread that found the broker of a Running engine
\* disconnected makes at most max_reconnect_attempts connect attempts; a
\* successful attempt leaves the engine in its state and resyncs the strategy's
\* positions with the broker's; when every attempt has failed, the stop() the
\* thread calls returns with the engine Stopped, the workers' stop event set
\* and the bus stopped.
C21_ReconnectOrStop ==
    [][\A h \in DOMAIN heartbeat :
          /\ heartbeat'[h].attempt <= max_reconnect_attempts
          /\ Reconnect(h, TRUE) =>
                 /\ state' = state
                 /\ strategy_positions' =
                        _sync_positions(strategy_positions, positions)
          /\ StopReturnsTo(h) =>
                 state' = "stopped" /\ engine_stop_event' /\ ~running']_vars


-----------------------------------------------------------------------------
(* Live engine: lifecycle events on the bus (SpecLifecycle) *)

\* An event of the kind waits in the queue of the bus.
Queued(kind) == CountType(event_queue, kind) > 0

\* A dispatcher thread is in _dispatch_event with an event of the kind.
Dispatching(kind) ==
    \E t \in DOMAIN threads :
        threads[t].pc = "dispatch" /\ threads[t].event.event_type = kind

\* C22: the SystemStart event a successful start() has published and the
\* SystemStop event stop() has published are each eventually dispatched by
\* the bus.
C22_LifecycleEventsDispatched ==
    \A kind \in {"system_start", "system_stop"} :
        Queued(kind) ~> Dispatching(kind)


-----------------------------------------------------------------------------
(* State store: crash recovery at engine start, snapshots (SpecRecovery,
   SpecStore) *)

\* A call of start() completes.
StartReturns == control[1] = "start" /\ control' = NoCall

\* C23: a start() that finds an unrecovered crash marker in the state store
\* leaves no unrecovered marker when it succeeds (the engine is Running), and
\* leaves the markers as they are when it fails.
C23_StartRecoversCrash ==
    [][(StartReturns /\ has_unrecovered_crash(crash_markers)) =>
          IF state' = "running"
          THEN ~has_unrecovered_crash(crash_markers')
          ELSE crash_markers' = crash_markers]_vars

\* C24: after save_state(s), get_latest_state() returns a snapshot equal to
\* s in every field, whatever the table held before.
C24_SaveThenLatest ==
    [][\A s \in Snapshots :
          SaveState(s) => get_latest_state(engine_states') = {s}]_vars


-----------------------------------------------------------------------------
(* Position synchronizer (SpecSync) *)

\* The quantity a dict holds for a symbol: 0 when it has no entry.
QuantityOf(d, symbol) == IF symbol \in DOMAIN d THEN d[symbol] ELSE 0

\* The kind a symbol is to be classified as by its two quantities.
QuantityKind(local, broker, symbol) ==
    LET l == QuantityOf(local, symbol)
        b == QuantityOf(broker, symbol)
    IN  IF l # 0 /\ b = 0 THEN "missing_broker"
        ELSE IF b # 0 /\ l = 0 THEN "missing_local"
        ELSE IF l # 0 /\ b # 0 /\ Abs(b - l) > quantity_tolerance
        THEN "quantity_mismatch"
        ELSE "none"

\* The report sync_positions has just returned.
LastReport == reconciliation_history[Len(reconciliation_history)]

\* The kinds of the quantity discrepancies a report lists for a symbol, one
\* entry per discrepancy.
RECURSIVE KindsOf(_, _, _)
KindsOf(r, symbol, i) ==
    IF i > Len(r.discrepancies) THEN <<>>
    ELSE (IF r.discrepancies[i].symbol = symbol
             /\ r.discrepancies[i].type # "price_mismatch"
          THEN <<r.discrepancies[i].type>> ELSE <<>>)
         \o KindsOf(r, symbol, i + 1)

AllSymbols == {SyncSymbols[i] : i \in DOMAIN SyncSymbols}

\* C25: sync_positions classifies each symbol by quantity exactly once:
\* MissingBroker when local is non-zero and the broker holds nothing,
\* MissingLocal when the broker is non-zero and local is absent or zero,
\* QuantityMismatch when both are non-zero and differ by more than the
\* tolerance, nothing when they match; and the report it returns has
\* discrepancies exactly when some symbol is classified.
C25_ClassifiedOnce ==
    [][SyncPositions =>
          LET r == LastReport'
              kind(symbol) == QuantityKind(local_positions, broker_dict, symbol)
          IN  /\ \A symbol \in AllSymbols :
                    KindsOf(r, symbol, 1) =
                        IF kind(symbol) = "none" THEN <<>>
                        ELSE <<kind(symbol)>>
              /\ has_discrepancies(r) <=>
                    \E symbol \in AllSymbols : kind(symbol) # "none"]_vars

\* C26: with auto_reconcile on, one sync_positions call sets the local
\* quantity of every MissingLocal and QuantityMismatch symbol to the broker's,
\* that of every MissingBroker symbol to 0, leaves every other local entry as
\* it was, and marks no PriceMismatch resolved.
C26_AutoReconcile ==
    [][(SyncPositions /\ auto_reconcile) =>
          /\ \A symbol \in AllSymbols :
                LET kind == QuantityKind(local_positions, broker_dict, symbol)
                IN  IF kind \in {"missing_local", "quantity_mismatch"}
                    THEN /\ symbol \in DOMAIN local_positions'
                         /\ local_positions'[symbol] = broker_dict[symbol]
                    ELSE IF kind = "missing_broker"
                    THEN /\ symbol \in DOMAIN local_positions'
                         /\ local_positions'[symbol] = 0
                    ELSE /\ symbol \in DOMAIN local_positions'
                               <=> symbol \in DOMAIN local_positions
                         /\ symbol \in DOMAIN local_positions =>
                               local_positions'[symbol] = local_positions[symbol]
          /\ \A i \in DOMAIN LastReport'.discrepancies :
                LastReport'.discrepancies[i].type = "price_mismatch" =>
                    ~LastReport'.discrepancies[i].resolved]_vars

\* Local {AAPL: 10, MSFT: 3, TSLA: 7} with prices off by 2% against broker
\* {AAPL: 10, MSFT: 5}: after one call local is {AAPL: 10, MSFT: 5, TSLA: 0},
\* the two quantity discrepancies are resolved and the price mismatches are
\* not.
C26_Witness ==
    /\ auto_reconcile
    /\ sync_count = 1
    /\ broker_dict = [s \in {"AAPL", "MSFT"} |->
                         IF s = "AAPL" THEN Shares(10) ELSE Shares(5)]
    /\ local_positions = [s \in {"AAPL", "MSFT", "TSLA"} |->
                             IF s = "AAPL" THEN Shares(10)
                             ELSE IF s = "MSFT" THEN Shares(5) ELSE 0]
    /\ \E i, j, k \in DOMAIN LastReport.discrepancies :
          /\ LastReport.discrepancies[i] =
                 [Discrepancy("MSFT", "quantity_mismatch", Shares(3), Shares(5))
                     EXCEPT !.resolved = TRUE]
          /\ LastReport.discrepancies[j] =
                 [Discrepancy("TSLA", "missing_broker", Shares(7), 0)
                     EXCEPT !.resolved = TRUE]
          /\ LastReport.discrepancies[k].type = "price_mismatch"
          /\ ~LastReport.discrepancies[k].resolved

\* C27: a report whose discrepancies are all of a kind other than
\* PriceMismatch is synced when sync_positions with auto_reconcile returns
\* it: its synced flag is true and it has no unresolved discrepancy.
C27_SyncedAfterReconcile ==
    [][(SyncPositions /\ auto_reconcile
          /\ \A i \in DOMAIN LastReport'.discrepancies :
                LastReport'.discrepancies[i].type # "price_mismatch") =>
          LastReport'.synced /\ ~has_discrepancies(LastReport')]_vars

-----------------------------------------------------------------------------
(* The P&L tracker *)

\* The sum of the values a dict holds for the keys of S.
RECURSIVE SumOver(_, _)
SumOver(d, S) ==
    IF S = {} THEN 0
    ELSE LET k == CHOOSE x \in S : TRUE
         IN  d[k] + SumOver(d, S \ {k})

\* The sum of the net P&L of the first n trades of a list, each computed from
\* the prices, the quantity, the side and the commission the record holds.
RECURSIVE NetSum(_, _)
NetSum(trades, n) ==
    IF n = 0 THEN 0
    ELSE NetSum(trades, n - 1)
         + (IF trades[n].side = "long"
            THEN (trades[n].exit_price - trades[n].entry_price) * trades[n].quantity
            ELSE (trades[n].entry_price - trades[n].exit_price) * trades[n].quantity)
         - trades[n].commission

\* C28: after any sequence of update_position_pnl, update_from_positions,
\* record_trade and record_fill, get_total_pnl() is realized_pnl plus the sum
\* of the unrealized P&L kept for the symbols, and get_total_equity() is
\* initial_capital plus get_total_pnl().
C28_TotalPnlAndEquity ==
    /\ get_total_pnl(realized_pnl, _position_pnl)
           = realized_pnl + SumOver(_position_pnl, DOMAIN _position_pnl)
    /\ get_total_equity(tracker_capital, realized_pnl, _position_pnl)
           = tracker_capital + get_total_pnl(realized_pnl, _position_pnl)

\* A tracker with a capital, with a gain and a loss on two open positions,
\* after a trade recorded by record_fill with a commission.
C28_Witness ==
    /\ tracker_capital = 1000
    /\ DOMAIN _position_pnl = {"AAPL", "MSFT"}
    /\ _position_pnl["AAPL"] > 0
    /\ _position_pnl["MSFT"] < 0
    /\ Len(_trades) > 0
    /\ realized_pnl # 0
    /\ total_commission > 10 * Len(_trades)

\* A fraction <<n, d>> with d > 0 lies in [0, 1].
InUnit(r) == 0 <= r[1] /\ r[1] <= r[2]

\* C29: the drawdown get_current_drawdown() reports and the drawdown the risk
\* manager keeps in current_drawdown lie in [0, 1] in every reachable state.
C29_DrawdownInUnitInterval ==
    /\ InUnit(get_current_drawdown(tracker_capital, realized_pnl,
                                   _position_pnl, _peak_equity))
    /\ InUnit(current_drawdown)

\* The dict get_performance_summary() returns holds n under a key.
Reports(key, n) ==
    /\ key \in DOMAIN get_performance_summary
    /\ get_performance_summary[key] = n

\* realized_pnl is the sum of gross P&L minus commission over the recorded
\* trades.
RealizedIsNetSum == realized_pnl = NetSum(_trades, Len(_trades))

\* C30 as stated: after any sequence of record_trade calls realized_pnl is
\* the sum of the net P&L of the trades, and the performance summary reports
\* the number of trades, of winning trades and of losing trades.
C30_SummaryCounts ==
    /\ RealizedIsNetSum
    /\ Reports("total_trades", Len(_trades))
    /\ Reports("winning_trades", Winning(_trades))
    /\ Reports("losing_trades", Losing(_trades))

\* C30, amended: realized_pnl is the sum of the net P&L of the recorded
\* trades and the summary reports the number of trades; once a trade has been
\* recorded the summary also reports the numbers of trades with a positive
\* and with a negative net P&L, and before that it holds neither count.
C30_SummaryCountsAfterTrade ==
    /\ RealizedIsNetSum
    /\ Reports("total_trades", Len(_trades))
    /\ \A i \in DOMAIN _trades :
          _trades[i].net_pnl = NetSum(_trades, i) - NetSum(_trades, i - 1)
    /\ IF Len(_trades) > 0
       THEN /\ Reports("winning_trades",
                   Cardinality({i \in DOMAIN _trades :
                       NetSum(_trades, i) > NetSum(_trades, i - 1)}))
            /\ Reports("losing_trades",
                   Cardinality({i \in DOMAIN _trades :
                       NetSum(_trades, i) < NetSum(_trades, i - 1)}))
       ELSE {"winning_trades", "losing_trades"}
                \cap DOMAIN get_performance_summary = {}

\* Two trades recorded, a short one that wins and a long one that loses.
C30_Witness ==
    /\ Len(_trades) = 2
    /\ _trades[1].side = "short" /\ _trades[1].net_pnl > 0
    /\ _trades[2].side = "long" /\ _trades[2].net_pnl < 0
    /\ Reports("winning_trades", 1)
    /\ Reports("losing_trades", 1)

-----------------------------------------------------------------------------
(* The market data socket *)

\* C31: a connection made after a loss, with no subscribe or unsubscribe call
\* in between, leaves the feed streaming what it streamed before the loss:
\* the same tokens, each in the mode it was subscribed in.
C31_ResubscribeRestores ==
    [][OnConnect /\ sub_phase = "clean"
          => ticker_subscriptions' = held_before]_vars

-----------------------------------------------------------------------------
(* The paper broker's positions *)

\* The quantity of a symbol in the broker's positions, 0 when it has none.
HeldQuantity(pos, symbol) == IF symbol \in DOMAIN pos THEN pos[symbol] ELSE 0

\* The paper broker executes a fill in this step: only _process_fill changes
\* the cash.  The fill is that of the order the submit_order call was made
\* with, for its whole quantity.
ExecutedFill == cash' # cash

\* C32: the position quantity of each symbol is the algebraic sum of the
\* signed quantities of the fills executed on it (an absent position counts
\* as 0): every executed fill adds its quantity to the position of its
\* symbol for a buy, subtracts it for a sell, and leaves the other symbols.
C32_PositionIsSumOfFills ==
    [][ExecutedFill =>
          LET o == orders'[last'.order]
              signed == IF o.side = "buy" THEN o.quantity ELSE 0 - o.quantity
          IN  \A s \in {"AAPL", "TSLA"} :
                 HeldQuantity(positions', s) =
                     HeldQuantity(positions, s)
                         + (IF s = o.symbol THEN signed ELSE 0)]_vars

-----------------------------------------------------------------------------
(* Concurrent callers of the OrderManager *)

\* C33: process_fill calls that run at the same time on two threads lose no
\* update: once the calls have returned, total_fills is the number of fills
\* received and the filled quantity of every order is the sum of the
\* quantities of the fills applied to it.
C33_NoLostUpdate ==
    (\A c \in Callers : fill_callers[c].pc = "idle")
        => /\ stats.total_fills = Len(oms_fills)
           /\ \A id \in DOMAIN orders :
                 orders[id].filled_quantity = applied[id].q

-----------------------------------------------------------------------------
(* The order validator *)

\* The price of an order is set and positive.
Positive(p) == p # None /\ p > 0

\* The order passes the default rules as the specification states them.
Acceptable(o) ==
    /\ o.quantity > 0
    /\ o.order_type = "limit" => Positive(o.price)
    /\ o.order_type \in {"stop", "stop_limit"} => Positive(o.stop_price)
    /\ o.symbol # ""

\* The reason of the first rule an unacceptable order fails: quantity, then
\* prices, then symbol.
FirstFailure(o) ==
    IF ~(o.quantity > 0) THEN "Invalid quantity"
    ELSE IF o.order_type = "limit" /\ ~Positive(o.price)
    THEN (IF o.price = None THEN "Limit order requires price"
          ELSE "Invalid limit price")
    ELSE IF o.order_type \in {"stop", "stop_limit"} /\ ~Positive(o.stop_price)
    THEN (IF o.stop_price = None THEN "Stop order requires stop price"
          ELSE "Invalid stop price")
    ELSE "Symbol is required"

\* C34: validate with the default rules accepts an order exactly when its
\* quantity is positive, a Limit order has a positive price, a Stop or
\* StopLimit order has a positive stop price and the symbol is not empty;
\* for any other order it returns the reason of the first failing rule.
C34_ValidatorAcceptsIff ==
    verdict # <<>> =>
        /\ verdict[1] = Acceptable(candidate)
        /\ ~verdict[1] => verdict[2] = FirstFailure(candidate)

\* validate has rejected a StopLimit order with a positive quantity and a
\* limit price for its stop price of 0.
C34_Witness ==
    /\ verdict # <<>>
    /\ candidate.order_type = "stop_limit"
    /\ candidate.quantity > 0 /\ candidate.price = 7 /\ candidate.symbol = "AAPL"
    /\ candidate.stop_price = 0
    /\ verdict = <<FALSE, "Invalid stop price">>

-----------------------------------------------------------------------------
(* The rate ring of the risk manager *)

\* The number of timestamps of a ring that lie within a span before now.
Within(ts, span) == Len(LaterThan(ts, now - span))

\* C35: every check_order call records exactly one timestamp in the ring,
\* whatever the check returns: after the call the ring counts one check more
\* in the last second and in the last minute than before it, and its last
\* entry is the time of the call.
C35_EveryCheckRecorded ==
    [][CheckStep =>
          /\ Within(order_timestamps', OneSecond)
                 = Within(order_timestamps, OneSecond) + 1
          /\ Within(order_timestamps', OneMinute)
                 = Within(order_timestamps, OneMinute) + 1
          /\ order_timestamps' # <<>>
          /\ order_timestamps'[Len(order_timestamps')] = now]_vars

-----------------------------------------------------------------------------
(* The background workers *)

\* C36: whenever the engine is Running or Paused after a successful start(),
\* also one that follows an earlier stop(), the heartbeat worker that start()
\* launched is alive: it has not left its loop because of the shutdown flag.
C36_WorkersAlive ==
    (state \in {"running", "paused"} /\ heartbeat # <<>>)
        => heartbeat[Len(heartbeat)].pc # "done"

-----------------------------------------------------------------------------
(* A failed broker query *)

\* C37: a sync_positions call during which the broker's get_positions call
\* fails leaves the local positions as they were, with auto_reconcile on
\* too.
C37_FailedQueryKeepsLocal ==
    [][(SyncPositions /\ get_positions_fails) =>
          local_positions' = local_positions]_vars

-----------------------------------------------------------------------------
(* The strategy's positions after an engine position sync *)

\* C38: after a position sync of the engine that completes without error,
\* the strategy's quantity of every symbol is the broker's current quantity,
\* which is 0 for a symbol the strategy holds and the broker no longer
\* reports.
C38_StrategyMatchesBroker ==
    [][PositionSync =>
          \A symbol \in DOMAIN strategy_positions' \cup DOMAIN positions' :
              HeldQuantity(strategy_positions', symbol) =
                  HeldQuantity(positions', symbol)]_vars

-----------------------------------------------------------------------------
(* The pending set of the OrderManager *)

\* The statuses of an order that is still open.
OpenStatuses == {"pending", "submitted", "partially_filled"}

\* C39: the OrderManager's pending set holds exactly the tracked orders
\* whose status is Pending, Submitted or PartiallyFilled, each once, also
\* after the engine's stop() has cancelled the open orders at the broker.
C39_PendingIsOpen ==
    /\ \A i, j \in 1..Len(pending_orders) :
          i # j => pending_orders[i] # pending_orders[j]
    /\ \A id \in oms_orders :
          InSeq(pending_orders, id) <=> orders[id].status \in OpenStatuses
    /\ \A i \in 1..Len(pending_orders) : pending_orders[i] \in oms_orders

-----------------------------------------------------------------------------
(* The commission total of the tracker *)

\* The call of this step recorded a trade: record_trade called directly, or
\* record_fill called with an exit fill and an entry price.
TradeRecorded == Len(_trades') = Len(_trades) + 1

\* C40: total_commission is the sum of the commissions passed to the
\* record_fill and record_trade calls, each counted once: a call that
\* records a trade adds the commission of that trade once.
C40_CommissionCountedOnce ==
    [][TradeRecorded =>
          total_commission' =
              total_commission + _trades'[Len(_trades')].commission]_vars

====
